---- MODULE Spec2Model ----
(***************************************************************************)
(* Model of the arb-future-edge-model pipeline:                            *)
(*   - label synthesis      (scripts/generate-capacity-labels.mjs)         *)
(*   - decision evaluation  (scripts/backtest-robust-models.mjs,           *)
(*                           walk-forward backtest script)                 *)
(*   - threshold tuning     (scripts/train-robust-models.mjs, runWindow)   *)
(*                                                                         *)
(* Numbers.  JavaScript doubles are modelled by integers:                  *)
(*   - timestamps and durations are whole MINUTES (1 unit = 60000 ms), so  *)
(*     15m/1h/3h/7d are 15/60/180/10080 and hours-to-resolution h is the   *)
(*     minute count 60*h;                                                  *)
(*   - edges are in units of 0.01, capacities are whole contracts, so an   *)
(*     uplift edge*contracts is an integer (in units of 0.01);             *)
(*   - probabilities and thresholds are in units of 0.01 (0.35 is 35);     *)
(*   - a quotient a/b is kept as the pair <<a, b>>.                        *)
(* A nullable value is the empty tuple (null / NaN) or a 1-tuple <<v>>.    *)
(***************************************************************************)
EXTENDS Integers, Sequences, FiniteSets, TLC

VARIABLES
    pc,           \* position of the script or function under way
    rows,         \* generate-capacity-labels.mjs `rows`: the parsed input rows
    grouped,      \* `grouped`: Map dedupeKey -> series, in insertion order
    gi,           \* labeling loop: index of the series being labeled
    ri,           \* labeling loop: index i inside the series
    labeledRows,  \* `labeledRows`: the output records
    written,      \* the labeled dataset as written to disk (empty until written)
    capRow,       \* a record handed to resolveCapacity
    capOut,       \* what resolveCapacity returned for capRow
    ttrIn,        \* an hours-to-resolution value handed to resolvePhaseKey
    phaseOut,     \* what resolvePhaseKey returned for ttrIn
    evRows,       \* decision evaluation: the filtered rows of a split
    evProbs,      \* decision evaluation: calibrated probabilities of evRows
    tuning,       \* the threshold grid results after the descending sort
    threshold,    \* the threshold tuned or evaluated at
    evOut,        \* evaluate(evRows, evProbs, threshold): its locals and result
    wfRaw,        \* walk-forward: the parsed lines of the labeled dataset
    allRows,      \* walk-forward: `allRows`, the prepared rows sorted by time
    start,        \* walk-forward: the loop variable `start`
    windows,      \* walk-forward: `windows`, the reported windows so far
    attempted,    \* walk-forward: log of the loop iterations executed
    report,       \* walk-forward: the report as written (Null until written)
    clock,        \* the wall clock read by `new Date()`
    firstReport,  \* the report an earlier run on the same input wrote
    fitRows,      \* model fitting: the prepared rows handed to a fit
    fitRowsB,     \* model fitting: the rows of a second, independent fit
    fitOut,       \* model fitting: what the fits produced
    prIn,         \* regression prediction: the artifacts and the row
    prOut,        \* regression prediction: predictReg(row)
    vecIn,        \* feature vector: the row, the schema and the scaler
    vecOut,       \* feature vector: buildVector(row, schema, scaler)
    edRows,       \* evaluateDecision: rows, their targets possibly null
    edProbs,      \* evaluateDecision: the probabilities of edRows
    edOut,        \* evaluateDecision / evaluate results for edRows
    rawText,      \* input file: `raw`, the text read, a string of characters
    parsedRows,   \* input file: the rows JSON.parse returned
    outputs       \* the output files a script has written

vars == <<pc, rows, grouped, gi, ri, labeledRows, written, capRow, capOut,
          ttrIn, phaseOut, evRows, evProbs, tuning, threshold, evOut,
          wfRaw, allRows, start, windows, attempted, report, clock, firstReport,
          fitRows, fitRowsB, fitOut, prIn, prOut, vecIn, vecOut, edRows, edProbs, edOut,
          rawText, parsedRows, outputs>>

labelVars == <<rows, grouped, gi, ri, labeledRows, written>>
capVars == <<capRow, capOut>>
phaseVars == <<ttrIn, phaseOut>>
evalVars == <<evRows, evProbs, tuning, threshold, evOut>>
walkVars == <<wfRaw, allRows, start, windows, attempted, report, clock,
              firstReport>>
fitVars == <<fitRows, fitRowsB, fitOut>>
predVars == <<prIn, prOut, vecIn, vecOut>>
edVars == <<edRows, edProbs, edOut>>
parseVars == <<rawText, parsedRows, outputs>>

----------------------------------------------------------------------------
(* Nullable values *)

Null == <<>>
Some(v) == <<v>>
Val(o) == o[1]

Min2(a, b) == IF a <= b THEN a ELSE b
Max2(a, b) == IF a >= b THEN a ELSE b

----------------------------------------------------------------------------
(* JavaScript values as they appear in a parsed JSON row.                   *)
(*   t = "null"      null                                                   *)
(*   t = "undefined" the field is missing                                   *)
(*   t = "number"    the finite number n                                    *)
(*   t = "numstr"    a string that Number() converts to the finite number n *)
(*   t = "string"    the string s, which Number() converts to NaN unless    *)
(*                   it is empty, and which Date does not parse             *)
(*   t = "date"      an ISO-8601 string of the instant n (minutes)          *)

JsNull == [t |-> "null", n |-> 0, s |-> ""]
JsUndef == [t |-> "undefined", n |-> 0, s |-> ""]
JsNum(k) == [t |-> "number", n |-> k, s |-> ""]
JsNumStr(k) == [t |-> "numstr", n |-> k, s |-> ""]
JsStr(x) == [t |-> "string", n |-> 0, s |-> x]
JsInfinity == [t |-> "infinity", n |-> 0, s |-> ""]
JsDate(m) == [t |-> "date", n |-> m, s |-> "iso"]

\* Boolean(v): null, undefined, "", 0 are falsy.
Truthy(v) ==
    CASE v.t \in {"null", "undefined"} -> FALSE
      [] v.t = "number" -> v.n # 0
      [] v.t = "string" -> v.s # ""
      [] OTHER -> TRUE

\* new Date(v).getTime(): the instant of an ISO string, NaN (Null) otherwise.
DateGetTime(v) == IF v.t = "date" THEN Some(v.n) ELSE Null

safeNum(v) ==
    IF v.t \in {"null", "undefined"} \/ (v.t = "string" /\ v.s = "")
    THEN Null
    ELSE IF v.t \in {"number", "numstr"} THEN Some(v.n) ELSE Null

----------------------------------------------------------------------------
(* Constants of generate-capacity-labels.mjs (durations in minutes). *)

HORIZON_15M == 15
HORIZON_1H == 60
HORIZON_3H == 180
HORIZONS == << [key |-> "15m", ms |-> HORIZON_15M],
               [key |-> "1h", ms |-> HORIZON_1H],
               [key |-> "3h", ms |-> HORIZON_3H] >>
MAX_MODEL_WINDOW_MS == 10080
LATE_WINDOW_HOURS == 24
NEAR_RESOLUTION_HOURS == 6
MinutesPerHour == 60

RESOLUTION_PHASES ==
    << [key |-> "T_7d_3d", minHours |-> 72, maxHours |-> 168],
       [key |-> "T_3d_1d", minHours |-> 24, maxHours |-> 72],
       [key |-> "T_24h_6h", minHours |-> 6, maxHours |-> 24],
       [key |-> "T_6h_1h", minHours |-> 1, maxHours |-> 6],
       [key |-> "T_1h_close", minHours |-> 0, maxHours |-> 1] >>

\* POLICY_WINDOW_HOURS_BY_PHASE, in minutes (24h, 12h, 6h, 1h, 0.5h).
POLICY_WINDOW_BY_PHASE ==
    [p \in {"T_7d_3d", "T_3d_1d", "T_24h_6h", "T_6h_1h", "T_1h_close"} |->
        CASE p = "T_7d_3d" -> 1440
          [] p = "T_3d_1d" -> 720
          [] p = "T_24h_6h" -> 360
          [] p = "T_6h_1h" -> 60
          [] OTHER -> 30]
POLICY_WINDOW_DEFAULT == 1440
POLICY_WINDOW_FLOOR == 30
POLICY_WINDOW_CEIL == 1440

----------------------------------------------------------------------------
(* Pure helpers of generate-capacity-labels.mjs *)

\* [target, minKernel].filter(x => x !== null && x > 0), as a sequence.
PositiveCandidatesNonNegative(row) ==
    LET a == safeNum(row.targetContractsAtDecision)
        b == safeNum(row.minKernelContractsAtDecision)
        keep(x) == x # Null /\ Val(x) >= 0
    IN  (IF keep(a) THEN <<Val(a)>> ELSE <<>>) \o (IF keep(b) THEN <<Val(b)>> ELSE <<>>)

PositiveCandidates(row) ==
    LET a == safeNum(row.targetContractsAtDecision)
        b == safeNum(row.minKernelContractsAtDecision)
        keep(x) == x # Null /\ Val(x) > 0
    IN  (IF keep(a) THEN <<Val(a)>> ELSE <<>>) \o (IF keep(b) THEN <<Val(b)>> ELSE <<>>)

RECURSIVE SeqMin(_)
SeqMin(s) == IF Len(s) = 1 THEN s[1] ELSE Min2(s[1], SeqMin(Tail(s)))

resolveCapacity(row) ==
    LET candidates == PositiveCandidates(row)
    IN  IF Len(candidates) = 0 THEN Null ELSE Some(SeqMin(candidates))

\* The parseable expiry instants of a row, in field order.
RECURSIVE ParseableTs(_)
ParseableTs(vs) ==
    IF vs = <<>> THEN <<>>
    ELSE LET v == Head(vs)
             rest == ParseableTs(Tail(vs))
         IN  IF Truthy(v) /\ DateGetTime(v) # Null
             THEN <<Val(DateGetTime(v))>> \o rest
             ELSE rest

parseResolutionTs(row) ==
    LET candidates == ParseableTs(<< row.leg1ExpiresAt, row.leg2ExpiresAt,
                                     row.oppLeg1ExpiresAt, row.oppLeg2ExpiresAt >>)
    IN  IF Len(candidates) = 0 THEN Null ELSE Some(SeqMin(candidates))

\* RESOLUTION_PHASES.find(...): the first phase of the table that matches.
RECURSIVE FindPhase(_, _)
FindPhase(ttr, k) ==
    IF k > Len(RESOLUTION_PHASES) THEN Null
    ELSE LET p == RESOLUTION_PHASES[k]
         IN  IF ttr >= p.minHours * MinutesPerHour /\ ttr < p.maxHours * MinutesPerHour
             THEN Some(p.key)
             ELSE FindPhase(ttr, k + 1)

\* ttrHours is given in minutes (Null for null).
resolvePhaseKeyUpperInclusive(ttrHours) ==
    IF ttrHours = Null THEN Null
    ELSE LET ttr == Val(ttrHours)
             hit == {k \in 1..Len(RESOLUTION_PHASES) :
                        /\ ttr >= RESOLUTION_PHASES[k].minHours * MinutesPerHour
                        /\ ttr <= RESOLUTION_PHASES[k].maxHours * MinutesPerHour}
         IN  IF hit = {} THEN Null
             ELSE Some(RESOLUTION_PHASES[CHOOSE k \in hit : \A j \in hit : k <= j].key)

resolvePhaseKey(ttrHours) ==
    IF ttrHours = Null THEN Null ELSE FindPhase(Val(ttrHours), 1)

\* The policy window in minutes.  The fallback is clip(ttr/4, 0.5h, 24h); the
\* integer quotient decides every comparison with a whole-minute instant as
\* the real quotient does.
resolvePolicyWindowHours(phaseKey, ttrHoursNow) ==
    IF phaseKey # Null
    THEN POLICY_WINDOW_BY_PHASE[Val(phaseKey)]
    ELSE IF ttrHoursNow = Null
         THEN POLICY_WINDOW_DEFAULT
         ELSE Max2(POLICY_WINDOW_FLOOR, Min2(POLICY_WINDOW_CEIL, Val(ttrHoursNow) \div 4))

----------------------------------------------------------------------------
(* Forward scans of a series *)

\* new Date(row.decisionTs).getTime() of a row whose decisionTs parses.
TsOf(row) == Val(DateGetTime(row.decisionTs))

\* Variant: the scan starts at the record itself (j = idx instead of idx + 1).
RECURSIVE ScanFromSelf(_, _, _)
ScanFromSelf(seq, j, maxTs) ==
    IF j - 1 > Len(seq) THEN <<>>
    ELSE IF TsOf(seq[j - 1]) > maxTs THEN <<>>
    ELSE <<seq[j - 1]>> \o ScanFromSelf(seq, j + 1, maxTs)

\* for (j = from; j < seq.length; j++) { if (tj > maxTs) break; out.push(seq[j]) }
RECURSIVE ScanFuture(_, _, _)
ScanFuture(seq, j, maxTs) ==
    IF j > Len(seq) THEN <<>>
    ELSE IF TsOf(seq[j]) > maxTs THEN <<>>
    ELSE <<seq[j]>> \o ScanFuture(seq, j + 1, maxTs)

\* Variant: the horizon is not applied, only the 7-day / resolution cap.
futureRowsIgnoringHorizon(seq, idx, horizonMs, resolutionTs) ==
    LET t0 == TsOf(seq[idx])
        absoluteMaxTs ==
            IF resolutionTs = Null
            THEN t0 + MAX_MODEL_WINDOW_MS
            ELSE Min2(t0 + MAX_MODEL_WINDOW_MS, Val(resolutionTs))
    IN  ScanFuture(seq, idx + 1, absoluteMaxTs)

futureRowsWithinHorizon(seq, idx, horizonMs, resolutionTs) ==
    LET t0 == TsOf(seq[idx])
        absoluteMaxTs ==
            IF resolutionTs = Null
            THEN t0 + Min2(horizonMs, MAX_MODEL_WINDOW_MS)
            ELSE Min2(Min2(t0 + horizonMs, t0 + MAX_MODEL_WINDOW_MS), Val(resolutionTs))
    IN  ScanFuture(seq, idx + 1, absoluteMaxTs)

----------------------------------------------------------------------------
(* Fixed-horizon labels: buildLabelsForRow, the body of the horizon loop *)

HorizonAcc0 ==
    [bestEdge |-> Null, bestEdgeTs |-> Null,
     bestCapacityAdjustedUplift |-> Null, bestCapacityAdjustedTs |-> Null,
     bestFillRatio |-> Null, bestFutureCapacity |-> Null]

\* fillable, fillRatio and uplift of a candidate with a capacity, for a record
\* with a positive capacity.
fillable(nowCapacity, cCap) == Min2(Val(nowCapacity), Val(cCap))
fillRatio(nowCapacity, cCap) == <<fillable(nowCapacity, cCap), Val(nowCapacity)>>
uplift(nowEdge, nowCapacity, cEdge, cCap) ==
    Val(cEdge) * fillable(nowCapacity, cCap) - nowEdge * Val(nowCapacity)

\* if (bestEdge === null || cEdge > bestEdge) { ... }
HorizonUpdateEdge(acc, cEdge, cTsMs) ==
    IF acc.bestEdge = Null \/ Val(cEdge) > Val(acc.bestEdge)
    THEN [acc EXCEPT !.bestEdge = cEdge, !.bestEdgeTs = Some(cTsMs)]
    ELSE acc

\* if (cCapacity !== null) { if (bestFutureCapacity === null || ...) { ... } }
HorizonUpdateCapacity(acc, cCapacity) ==
    IF cCapacity # Null
       /\ (acc.bestFutureCapacity = Null
           \/ Val(cCapacity) > Val(acc.bestFutureCapacity))
    THEN [acc EXCEPT !.bestFutureCapacity = cCapacity]
    ELSE acc

\* if (bestCapacityAdjustedUplift === null || uplift > ...) { ... }
HorizonUpdateUplift(acc, up, ratio, cTsMs) ==
    IF acc.bestCapacityAdjustedUplift = Null
       \/ up > Val(acc.bestCapacityAdjustedUplift)
    THEN [acc EXCEPT !.bestCapacityAdjustedUplift = Some(up),
                     !.bestCapacityAdjustedTs = Some(cTsMs),
                     !.bestFillRatio = Some(ratio)]
    ELSE acc

\* The body of `for (const c of candidates)` on the candidate's values.
HorizonCandidate(acc, cEdge, cCapacity, cTsMs, nowEdge, nowCapacity) ==
    IF cEdge = Null THEN acc
    ELSE IF nowCapacity # Null /\ Val(nowCapacity) > 0 /\ cCapacity # Null
         THEN HorizonUpdateUplift(
                  HorizonUpdateCapacity(HorizonUpdateEdge(acc, cEdge, cTsMs), cCapacity),
                  uplift(nowEdge, nowCapacity, cEdge, cCapacity),
                  fillRatio(nowCapacity, cCapacity),
                  cTsMs)
         ELSE HorizonUpdateCapacity(HorizonUpdateEdge(acc, cEdge, cTsMs), cCapacity)

\* One iteration of `for (const c of candidates)`.
HorizonStep(acc, c, nowEdge, nowCapacity) ==
    HorizonCandidate(acc, safeNum(c.expectedEdgeAtDecision), resolveCapacity(c),
                     TsOf(c), nowEdge, nowCapacity)

RECURSIVE HorizonScan(_, _, _, _, _)
HorizonScan(candidates, k, acc, nowEdge, nowCapacity) ==
    IF k > Len(candidates) THEN acc
    ELSE HorizonScan(candidates, k + 1,
                     HorizonStep(acc, candidates[k], nowEdge, nowCapacity),
                     nowEdge, nowCapacity)

\* The label written after the loop, null when no candidate had an edge.
HorizonResult(acc, nowEdge, nowCapacity, nowTsMs) ==
    IF acc.bestEdge = Null THEN Null
    ELSE Some([edgeUplift |-> Val(acc.bestEdge) - nowEdge,
               improvesEdge |-> Val(acc.bestEdge) - nowEdge > 0,
               bestFutureEdge |-> Val(acc.bestEdge),
               minutesToBestEdge |->
                   IF acc.bestEdgeTs = Null THEN Null
                   ELSE Some(Val(acc.bestEdgeTs) - nowTsMs),
               nowCapacityContracts |-> nowCapacity,
               bestFutureCapacityContracts |-> acc.bestFutureCapacity,
               capacityChangeContracts |->
                   IF nowCapacity # Null /\ acc.bestFutureCapacity # Null
                   THEN Some(Val(acc.bestFutureCapacity) - Val(nowCapacity))
                   ELSE Null,
               capacityAdjustedUplift |-> acc.bestCapacityAdjustedUplift,
               improvesCapacityAdjusted |->
                   IF acc.bestCapacityAdjustedUplift # Null
                   THEN Some(Val(acc.bestCapacityAdjustedUplift) > 0)
                   ELSE Null,
               bestFillRatioAtNowSize |-> acc.bestFillRatio,
               minutesToBestCapacityAdjusted |->
                   IF acc.bestCapacityAdjustedTs = Null THEN Null
                   ELSE Some(Val(acc.bestCapacityAdjustedTs) - nowTsMs)])

\* The horizon label from the candidates and the record's own values.
HorizonLabelOf(candidates, nowEdge, nowCapacity, nowTsMs) ==
    IF Len(candidates) = 0 \/ nowEdge = Null THEN Null
    ELSE HorizonResult(HorizonScan(candidates, 1, HorizonAcc0, Val(nowEdge), nowCapacity),
                       Val(nowEdge), nowCapacity, nowTsMs)

\* labels[horizon.key] for one horizon.
HorizonLabel(seq, idx, horizonMs) ==
    HorizonLabelOf(futureRowsWithinHorizon(seq, idx, horizonMs, parseResolutionTs(seq[idx])),
                   safeNum(seq[idx].expectedEdgeAtDecision),
                   resolveCapacity(seq[idx]),
                   TsOf(seq[idx]))

----------------------------------------------------------------------------
(* Resolution-anchored label: buildResolutionAnchoredLabels *)

ResAcc0 ==
    [bestEdge7d |-> Null, bestEdgeTs |-> Null,
     bestCapAdj7d |-> Null, bestCapAdjTs |-> Null, bestFillRatio7d |-> Null,
     bestFutureCapacity7d |-> Null,
     bestLateCapAdj |-> Null, bestLateFillRatio |-> Null,
     bestNearResCapAdj |-> Null,
     bestPolicyWindowCapAdj |-> Null, bestPolicyWindowFillRatio |-> Null,
     bestPolicyWindowTs |-> Null]

\* if (bestEdge7d === null || cEdge > bestEdge7d) { ... }
ResUpdateEdge(acc, cEdge, cTsMs) ==
    IF acc.bestEdge7d = Null \/ Val(cEdge) > Val(acc.bestEdge7d)
    THEN [acc EXCEPT !.bestEdge7d = cEdge, !.bestEdgeTs = Some(cTsMs)]
    ELSE acc

\* if (cCap !== null) { if (bestFutureCapacity7d === null || ...) { ... } }
ResUpdateCapacity(acc, cCap) ==
    IF cCap # Null
       /\ (acc.bestFutureCapacity7d = Null \/ Val(cCap) > Val(acc.bestFutureCapacity7d))
    THEN [acc EXCEPT !.bestFutureCapacity7d = cCap]
    ELSE acc

\* Variant: a later candidate with an equal uplift replaces the best so far.
ResUpdate7dKeepingLast(acc, up, ratio, cTsMs) ==
    IF acc.bestCapAdj7d = Null \/ up >= Val(acc.bestCapAdj7d)
    THEN [acc EXCEPT !.bestCapAdj7d = Some(up),
                     !.bestCapAdjTs = Some(cTsMs),
                     !.bestFillRatio7d = Some(ratio)]
    ELSE acc

\* if (bestCapAdj7d === null || uplift > bestCapAdj7d) { ... }
ResUpdate7d(acc, up, ratio, cTsMs) ==
    IF acc.bestCapAdj7d = Null \/ up > Val(acc.bestCapAdj7d)
    THEN [acc EXCEPT !.bestCapAdj7d = Some(up),
                     !.bestCapAdjTs = Some(cTsMs),
                     !.bestFillRatio7d = Some(ratio)]
    ELSE acc

\* Variant: the late-window best is updated whatever the candidate's time to resolution.
ResUpdateLateAnyTime(acc, up, ratio, cTtrHours) ==
    IF acc.bestLateCapAdj = Null \/ up > Val(acc.bestLateCapAdj)
    THEN [acc EXCEPT !.bestLateCapAdj = Some(up), !.bestLateFillRatio = Some(ratio)]
    ELSE acc

\* if (cTtrHours !== null && cTtrHours <= LATE_WINDOW_HOURS) { ... }
ResUpdateLate(acc, up, ratio, cTtrHours) ==
    IF cTtrHours # Null /\ Val(cTtrHours) <= LATE_WINDOW_HOURS * MinutesPerHour
       /\ (acc.bestLateCapAdj = Null \/ up > Val(acc.bestLateCapAdj))
    THEN [acc EXCEPT !.bestLateCapAdj = Some(up), !.bestLateFillRatio = Some(ratio)]
    ELSE acc

\* if (cTtrHours !== null && cTtrHours <= NEAR_RESOLUTION_HOURS) { ... }
ResUpdateNear(acc, up, cTtrHours) ==
    IF cTtrHours # Null /\ Val(cTtrHours) <= NEAR_RESOLUTION_HOURS * MinutesPerHour
       /\ (acc.bestNearResCapAdj = Null \/ up > Val(acc.bestNearResCapAdj))
    THEN [acc EXCEPT !.bestNearResCapAdj = Some(up)]
    ELSE acc

\* if (cTsMs <= policyWindowEndTs) { ... }
ResUpdatePolicyWindow(acc, up, ratio, cTsMs, policyWindowEndTs) ==
    IF cTsMs <= policyWindowEndTs
       /\ (acc.bestPolicyWindowCapAdj = Null \/ up > Val(acc.bestPolicyWindowCapAdj))
    THEN [acc EXCEPT !.bestPolicyWindowCapAdj = Some(up),
                     !.bestPolicyWindowFillRatio = Some(ratio),
                     !.bestPolicyWindowTs = Some(cTsMs)]
    ELSE acc

\* The best-so-far updates of one candidate that has an edge and a capacity,
\* for a record with a positive capacity.
ResCapStep(acc, up, ratio, cTsMs, cTtrHours, policyWindowEndTs) ==
    ResUpdatePolicyWindow(
        ResUpdateNear(
            ResUpdateLate(ResUpdate7d(acc, up, ratio, cTsMs), up, ratio, cTtrHours),
            up, cTtrHours),
        up, ratio, cTsMs, policyWindowEndTs)

\* The body of `for (const c of candidates)` on the candidate's values.
ResCandidate(acc, cEdge, cCap, cTsMs, cTtrHours, nowEdge, nowCapacity, pwEndTs) ==
    IF cEdge = Null THEN acc
    ELSE IF nowCapacity # Null /\ Val(nowCapacity) > 0 /\ cCap # Null
         THEN ResCapStep(ResUpdateCapacity(ResUpdateEdge(acc, cEdge, cTsMs), cCap),
                         uplift(nowEdge, nowCapacity, cEdge, cCap),
                         fillRatio(nowCapacity, cCap),
                         cTsMs, cTtrHours, pwEndTs)
         ELSE ResUpdateCapacity(ResUpdateEdge(acc, cEdge, cTsMs), cCap)

\* One iteration of `for (const c of candidates)`.
ResStep(acc, c, resolutionTs, nowEdge, nowCapacity, policyWindowEndTs) ==
    ResCandidate(acc, safeNum(c.expectedEdgeAtDecision), resolveCapacity(c), TsOf(c),
                 IF resolutionTs = Null THEN Null ELSE Some(Val(resolutionTs) - TsOf(c)),
                 nowEdge, nowCapacity, policyWindowEndTs)

RECURSIVE ResScan(_, _, _, _, _, _, _)
ResScan(candidates, k, acc, resolutionTs, nowEdge, nowCapacity, policyWindowEndTs) ==
    IF k > Len(candidates) THEN acc
    ELSE ResScan(candidates, k + 1,
                 ResStep(acc, candidates[k], resolutionTs, nowEdge, nowCapacity,
                         policyWindowEndTs),
                 resolutionTs, nowEdge, nowCapacity, policyWindowEndTs)

\* Variant: the window ignores the resolution timestamp.
WindowEndTsUncapped(nowTsMs, resolutionTs) == nowTsMs + MAX_MODEL_WINDOW_MS

\* Variant: the resolution-anchored window ends after one hour.
WindowEndTsOneHour(nowTsMs, resolutionTs) ==
    IF resolutionTs = Null THEN nowTsMs + HORIZON_1H ELSE Min2(Val(resolutionTs), nowTsMs + HORIZON_1H)

\* windowEndTs of buildResolutionAnchoredLabels.
WindowEndTs(nowTsMs, resolutionTs) ==
    IF resolutionTs = Null
    THEN nowTsMs + MAX_MODEL_WINDOW_MS
    ELSE Min2(Val(resolutionTs), nowTsMs + MAX_MODEL_WINDOW_MS)

\* Variant: every later record of the series is a candidate.
ResCandidatesWholeSeries(seq, idx, resolutionTs) == SubSeq(seq, idx + 1, Len(seq))

\* The candidates of the resolution-anchored label (the first loop).
ResCandidates(seq, idx, resolutionTs) ==
    ScanFuture(seq, idx + 1, WindowEndTs(TsOf(seq[idx]), resolutionTs))

\* ttrHoursNow, in minutes.
TtrHoursNow(now, resolutionTs) ==
    IF resolutionTs = Null THEN Null ELSE Some(Val(resolutionTs) - TsOf(now))

\* Variant: the policy window is not applied, only the 7-day / resolution cap.
PolicyWindowEndTsWholeWindow(now, resolutionTs) ==
    IF resolutionTs = Null
    THEN TsOf(now) + MAX_MODEL_WINDOW_MS
    ELSE Min2(Val(resolutionTs), TsOf(now) + MAX_MODEL_WINDOW_MS)

\* policyWindowEndTs of buildResolutionAnchoredLabels.
PolicyWindowEndTs(now, resolutionTs) ==
    LET nowTsMs == TsOf(now)
        ttrHoursNow == TtrHoursNow(now, resolutionTs)
        policyWindowHours ==
            resolvePolicyWindowHours(resolvePhaseKey(ttrHoursNow), ttrHoursNow)
    IN  Min2(WindowEndTs(nowTsMs, resolutionTs), nowTsMs + policyWindowHours)

\* Variant: censoring is read off the 7-day uplift instead of the policy-window one.
LabelCensoredFrom7d(acc) == acc.bestCapAdj7d = Null

\* labelCensoredPolicyWindow of the returned object.
LabelCensored(acc) == acc.bestPolicyWindowCapAdj = Null

\* Variant: a delta of exactly 0 counts as "wait".
BuyNowBeatsWaitStrict(acc) ==
    IF acc.bestPolicyWindowCapAdj = Null THEN Null
    ELSE Some(Val(acc.bestPolicyWindowCapAdj) < 0)

\* buyNowBeatsWaitWindow of the returned object.
BuyNowBeatsWait(acc) ==
    IF acc.bestPolicyWindowCapAdj = Null THEN Null
    ELSE Some(Val(acc.bestPolicyWindowCapAdj) <= 0)

\* (new Date(ts).getTime() - nowTsMs) / (60 * 1000), null for a null ts.
MinutesTo(ts, nowTsMs) == IF ts = Null THEN Null ELSE Some(Val(ts) - nowTsMs)

\* The object returned after the loop, null when no candidate had an edge.
ResResult(acc, nowEdge, nowCapacity, nowTsMs, ttrHoursNow, phaseNow, policyWindowHours) ==
    IF acc.bestEdge7d = Null THEN Null
    ELSE Some([timeToResolutionHoursNow |-> ttrHoursNow,
               phaseNow |-> phaseNow,
               edgeUplift7d |-> Val(acc.bestEdge7d) - nowEdge,
               improvesEdge7d |-> Val(acc.bestEdge7d) - nowEdge > 0,
               bestFutureEdge7d |-> Val(acc.bestEdge7d),
               minutesToBestEdge7d |-> MinutesTo(acc.bestEdgeTs, nowTsMs),
               nowCapacityContracts |-> nowCapacity,
               bestFutureCapacityContracts7d |-> acc.bestFutureCapacity7d,
               capacityChangeContracts7d |->
                   IF nowCapacity # Null /\ acc.bestFutureCapacity7d # Null
                   THEN Some(Val(acc.bestFutureCapacity7d) - Val(nowCapacity))
                   ELSE Null,
               capacityAdjustedUplift7d |-> acc.bestCapAdj7d,
               improvesCapacityAdjusted7d |->
                   IF acc.bestCapAdj7d # Null
                   THEN Some(Val(acc.bestCapAdj7d) > 0)
                   ELSE Null,
               minutesToBestCapacityAdjusted7d |-> MinutesTo(acc.bestCapAdjTs, nowTsMs),
               bestFillRatioAtNowSize7d |-> acc.bestFillRatio7d,
               bestLateWindowCapacityAdjustedUplift |-> acc.bestLateCapAdj,
               bestLateWindowFillRatioAtNowSize |-> acc.bestLateFillRatio,
               enterEarlyBetterThanLate |->
                   IF acc.bestLateCapAdj = Null THEN Null
                   ELSE Some(Val(acc.bestLateCapAdj) <= 0),
               nearResolutionCapacityAdjustedUplift |-> acc.bestNearResCapAdj,
               policyWindowHours |-> policyWindowHours,
               deltaNetPnlPolicyWindowAtNowSize |-> acc.bestPolicyWindowCapAdj,
               buyNowBeatsWaitWindow |-> BuyNowBeatsWait(acc),
               bestWaitFillRatioPolicyWindowAtNowSize |-> acc.bestPolicyWindowFillRatio,
               minutesToBestPolicyWindow |-> MinutesTo(acc.bestPolicyWindowTs, nowTsMs),
               labelCensoredPolicyWindow |-> LabelCensored(acc)])

\* The label from the candidates, the record's own values and its phase.
ResLabelOf(candidates, now, resolutionTs, nowEdge, nowCapacity, ttrHoursNow, phaseNow) ==
    IF Len(candidates) = 0 \/ nowEdge = Null THEN Null
    ELSE ResResult(ResScan(candidates, 1, ResAcc0, resolutionTs, Val(nowEdge),
                           nowCapacity, PolicyWindowEndTs(now, resolutionTs)),
                   Val(nowEdge), nowCapacity, TsOf(now), ttrHoursNow, phaseNow,
                   resolvePolicyWindowHours(phaseNow, ttrHoursNow))

\* phaseNow is only computed for a record that is labelled; its value for the
\* others is not used.
ResLabelAt(candidates, now, resolutionTs, ttrHoursNow) ==
    ResLabelOf(candidates, now, resolutionTs, safeNum(now.expectedEdgeAtDecision),
               resolveCapacity(now), ttrHoursNow, resolvePhaseKey(ttrHoursNow))

buildResolutionAnchoredLabels(seq, idx, resolutionTs) ==
    ResLabelAt(ResCandidates(seq, idx, resolutionTs), seq[idx], resolutionTs,
               TtrHoursNow(seq[idx], resolutionTs))

\* buildLabelsForRow: the three horizon labels and the resolution-anchored one.
\* labels.taxonomy is the keyword classifier's tag of the record's market
\* metadata; the metadata is not part of the modelled record.
buildLabelsForRow(seq, idx) ==
    LET resolutionTs == parseResolutionTs(seq[idx])
    IN  [k \in {"15m", "1h", "3h", "resolutionAnchored"} |->
            CASE k = "15m" -> HorizonLabel(seq, idx, HORIZONS[1].ms)
              [] k = "1h" -> HorizonLabel(seq, idx, HORIZONS[2].ms)
              [] k = "3h" -> HorizonLabel(seq, idx, HORIZONS[3].ms)
              [] OTHER -> buildResolutionAnchoredLabels(seq, idx, resolutionTs)]

----------------------------------------------------------------------------
(* The input dataset.  data/training_dataset.jsonl is written by the        *)
(* extraction script: one parseFeatures(dbRow) per query row, the query     *)
(* ordered by decision_ts ascending.                                        *)

MaxRows == 3

\* extract-dataset safeNumber(value) written to JSON: a number or null.
safeNumber(value) ==
    LET n == safeNum(value) IN IF n = Null THEN JsNull ELSE JsNum(Val(n))

\* x ?? null
OrNull(v) == IF v.t \in {"null", "undefined"} THEN JsNull ELSE v

parseFeatures(row) ==
    [dedupeKey |-> OrNull(row.dedupe_key),
     decisionTs |-> row.decision_ts,
     expectedEdgeAtDecision |-> safeNumber(row.expected_edge_at_decision),
     targetContractsAtDecision |-> safeNumber(row.target_contracts_at_decision),
     minKernelContractsAtDecision |-> safeNumber(row.min_kernel_contracts_at_decision),
     leg1ExpiresAt |-> OrNull(row.leg1_expires_at),
     leg2ExpiresAt |-> OrNull(row.leg2_expires_at),
     oppLeg1ExpiresAt |-> OrNull(row.opp_leg1_expires_at),
     oppLeg2ExpiresAt |-> OrNull(row.opp_leg2_expires_at)]

\* Decision instants of the query rows (minutes): offsets of 15, 30, 60, 75,
\* 90 minutes, of exactly 7 days (10110 - 30) and of more than 7 days.
TsVals == {0, 15, 30, 90, 10110}

\* A query row of series "A": edge 0.02, 100 target contracts, no kernel
\* legs, no expiry.
BaseDbRow(ts) ==
    [dedupe_key |-> JsStr("A"),
     decision_ts |-> JsDate(ts),
     expected_edge_at_decision |-> JsNumStr(2),
     target_contracts_at_decision |-> JsNumStr(100),
     min_kernel_contracts_at_decision |-> JsNull,
     leg1_expires_at |-> JsNull,
     leg2_expires_at |-> JsNull,
     opp_leg1_expires_at |-> JsNull,
     opp_leg2_expires_at |-> JsNull]

\* The instants at which the variants of the base row are drawn.
VariantTsVals == {0, 30, 90}

\* The query rows the dataset is drawn from: the base row at every instant
\* and its variants in one attribute (edge, capacity, expiry, series).
DbRows ==
    { BaseDbRow(ts) : ts \in TsVals }
    \cup
    UNION { LET b == BaseDbRow(ts) IN
            { [b EXCEPT !.expected_edge_at_decision = JsNumStr(5)],
              [b EXCEPT !.expected_edge_at_decision = JsNumStr(1)],
              [b EXCEPT !.target_contracts_at_decision = JsNull],
              [b EXCEPT !.min_kernel_contracts_at_decision = JsNumStr(50)],
              [b EXCEPT !.leg1_expires_at = JsDate(100)],
              [b EXCEPT !.leg1_expires_at = JsStr("n/a"),
                        !.leg2_expires_at = JsDate(300),
                        !.opp_leg2_expires_at = JsDate(40)] }
          : ts \in VariantTsVals }
    \cup { [BaseDbRow(0) EXCEPT !.expected_edge_at_decision = JsNull],
           [BaseDbRow(15) EXCEPT !.expected_edge_at_decision = JsStr("")],
           [BaseDbRow(0) EXCEPT !.dedupe_key = JsStr("B")],
           [BaseDbRow(30) EXCEPT !.dedupe_key = JsStr("B"),
                                 !.expected_edge_at_decision = JsNumStr(5)] }

----------------------------------------------------------------------------
(* The labeling script: grouping, sorting, labeling, writing *)

\* Index of the entry of Map m with key k, 0 when absent.
RECURSIVE MapIndex(_, _, _)
MapIndex(m, k, j) ==
    IF j > Len(m) THEN 0
    ELSE IF m[j].key = k THEN j ELSE MapIndex(m, k, j + 1)

\* One iteration of `for (const row of rows)` of the grouping loop.
GroupStep(m, row) ==
    IF ~Truthy(row.dedupeKey) \/ ~Truthy(row.decisionTs)
       \/ row.expectedEdgeAtDecision.t = "null"
    THEN m
    ELSE LET j == MapIndex(m, row.dedupeKey.s, 1)
         IN  IF j = 0
             THEN Append(m, [key |-> row.dedupeKey.s, seq |-> <<row>>])
             ELSE [m EXCEPT ![j].seq = Append(@, row)]

RECURSIVE GroupAll(_, _, _)
GroupAll(rs, k, m) ==
    IF k > Len(rs) THEN m ELSE GroupAll(rs, k + 1, GroupStep(m, rs[k]))

\* Variant: a row whose timestamp is already in the sequence is dropped.
RECURSIVE InsertByTsDroppingTies(_, _)
InsertByTsDroppingTies(s, r) ==
    IF s = <<>> THEN <<r>>
    ELSE IF TsOf(s[Len(s)]) - TsOf(r) > 0
         THEN Append(InsertByTsDroppingTies(SubSeq(s, 1, Len(s) - 1), r), s[Len(s)])
         ELSE IF TsOf(s[Len(s)]) = TsOf(r) THEN s ELSE Append(s, r)

\* Insert row r into the sorted sequence s after every row that does not
\* compare greater than it (Array.prototype.sort is stable).
RECURSIVE InsertByTs(_, _)
InsertByTs(s, r) ==
    IF s = <<>> THEN <<r>>
    ELSE IF TsOf(s[Len(s)]) - TsOf(r) > 0
         THEN Append(InsertByTs(SubSeq(s, 1, Len(s) - 1), r), s[Len(s)])
         ELSE Append(s, r)

\* Variant: the series is left in the order of the input.
KeepInputOrder(s) == s

\* seq.sort((a, b) => new Date(a.decisionTs) - new Date(b.decisionTs))
RECURSIVE SortByTs(_)
SortByTs(s) ==
    IF s = <<>> THEN <<>>
    ELSE InsertByTs(SortByTs(SubSeq(s, 1, Len(s) - 1)), s[Len(s)])

LabelIdle ==
    /\ rows = <<>> /\ grouped = <<>> /\ gi = 1 /\ ri = 1
    /\ labeledRows = <<>> /\ written = <<>>
CapIdle == capRow = Null /\ capOut = Null
PhaseIdle == ttrIn = Null /\ phaseOut = Null
EvalIdle ==
    /\ evRows = <<>> /\ evProbs = <<>>
    /\ tuning = <<>> /\ threshold = Null /\ evOut = Null
WalkIdle ==
    /\ wfRaw = <<>> /\ allRows = <<>> /\ start = 0 /\ windows = <<>>
    /\ attempted = <<>>
    /\ report = Null /\ clock = 0 /\ firstReport = Null
FitIdle == fitRows = <<>> /\ fitRowsB = <<>> /\ fitOut = Null
PredIdle == prIn = Null /\ prOut = Null /\ vecIn = Null /\ vecOut = Null
EdIdle == edRows = <<>> /\ edProbs = <<>> /\ edOut = Null
ParseIdle == rawText = <<>> /\ parsedRows = <<>> /\ outputs = {}

Init ==
    /\ pc = "read"
    /\ rows = <<>>
    /\ grouped = <<>>
    /\ gi = 1
    /\ ri = 1
    /\ labeledRows = <<>>
    /\ written = <<>>
    /\ CapIdle /\ PhaseIdle /\ EvalIdle
    /\ WalkIdle /\ FitIdle /\ PredIdle /\ EdIdle /\ ParseIdle

\* One more line of data/training_dataset.jsonl is parsed into `rows`.  The
\* file holds parseFeatures(r) for the query rows r, `order by decision_ts asc`.
ReadRow ==
    /\ pc = "read"
    /\ Len(rows) < MaxRows
    /\ \E r \in DbRows :
          /\ IF rows = <<>> THEN TRUE ELSE TsOf(rows[Len(rows)]) <= r.decision_ts.n
          /\ rows' = Append(rows, parseFeatures(r))
    /\ UNCHANGED <<pc, grouped, gi, ri, labeledRows, written, capVars, phaseVars, evalVars,
                 walkVars, fitVars, predVars, edVars, parseVars>>

\* The grouping loop.
GroupRows ==
    /\ pc = "read"
    /\ grouped' = GroupAll(rows, 1, <<>>)
    /\ pc' = "sort"
    /\ UNCHANGED <<rows, gi, ri, labeledRows, written, capVars, phaseVars, evalVars,
                 walkVars, fitVars, predVars, edVars, parseVars>>

\* for (const seq of grouped.values()) seq.sort(...)
SortSeries ==
    /\ pc = "sort"
    /\ grouped' = [j \in 1..Len(grouped) |->
                      [grouped[j] EXCEPT !.seq = SortByTs(@)]]
    /\ pc' = "label"
    /\ UNCHANGED <<rows, gi, ri, labeledRows, written, capVars, phaseVars, evalVars,
                 walkVars, fitVars, predVars, edVars, parseVars>>

\* One iteration of the inner labeling loop: labeledRows.push({...seq[i], labels}).
LabelRow ==
    /\ pc = "label"
    /\ gi <= Len(grouped)
    /\ LET seq == grouped[gi].seq
       IN  /\ labeledRows' = Append(labeledRows,
                                    [row |-> seq[ri], labels |-> buildLabelsForRow(seq, ri)])
           /\ IF ri < Len(seq)
              THEN ri' = ri + 1 /\ gi' = gi
              ELSE ri' = 1 /\ gi' = gi + 1
    /\ UNCHANGED <<pc, rows, grouped, written, capVars, phaseVars, evalVars,
                 walkVars, fitVars, predVars, edVars, parseVars>>

\* fs.writeFile(outputPath, lines)
WriteLabeled ==
    /\ pc = "label"
    /\ gi > Len(grouped)
    /\ written' = labeledRows
    /\ pc' = "done"
    /\ UNCHANGED <<rows, grouped, gi, ri, labeledRows, capVars, phaseVars, evalVars,
                 walkVars, fitVars, predVars, edVars, parseVars>>

Next == ReadRow \/ GroupRows \/ SortSeries \/ LabelRow \/ WriteLabeled

Spec == Init /\ [][Next]_vars

----------------------------------------------------------------------------
(* Properties of the labeled records *)

\* labeledRows[n] is the record at index Locate(n, 1)[2] of series Locate(n, 1)[1].
RECURSIVE Locate(_, _)
Locate(n, g) ==
    IF n <= Len(grouped[g].seq) THEN <<g, n>>
    ELSE Locate(n - Len(grouped[g].seq), g + 1)

Outputs == 1..Len(labeledRows)
SeriesAt(n) == grouped[Locate(n, 1)[1]].seq
IdxAt(n) == Locate(n, 1)[2]
NowAt(n) == SeriesAt(n)[IdxAt(n)]
ResLabel(n) == labeledRows[n].labels["resolutionAnchored"]
Labelled(n) == ResLabel(n) # Null
EdgeOf(row) == Val(safeNum(row.expectedEdgeAtDecision))

\* The later records of the series of output n with decisionTs <= bound.
LaterUpTo(n, bound) ==
    { j \in (IdxAt(n) + 1)..Len(SeriesAt(n)) : TsOf(SeriesAt(n)[j]) <= bound }

\* min(resolutionTs, now + 7d): the end of the 7-day / resolution-capped window.
CappedWindowEnd(n) ==
    LET res == parseResolutionTs(NowAt(n))
        cap == TsOf(NowAt(n)) + 7 * 24 * 60
    IN  IF res = Null THEN cap ELSE Min2(Val(res), cap)

\* min(window end, now + policyWindowHours), from the label's own policyWindowHours.
PolicyEnd(n) ==
    Min2(CappedWindowEnd(n), TsOf(NowAt(n)) + Val(ResLabel(n)).policyWindowHours)

\* C1: for every record with a non-null resolution-anchored label,
\* labelCensoredPolicyWindow is true iff deltaNetPnlPolicyWindowAtNowSize is null.
C1_CensoredIffDeltaNull ==
    \A n \in Outputs :
        Labelled(n) =>
            (Val(ResLabel(n)).labelCensoredPolicyWindow
                <=> Val(ResLabel(n)).deltaNetPnlPolicyWindowAtNowSize = Null)

\* A censored label and an uncensored one have both been emitted.
C1_Witness ==
    /\ \E n \in Outputs : Labelled(n) /\ Val(ResLabel(n)).labelCensoredPolicyWindow
    /\ \E n \in Outputs : Labelled(n) /\ ~Val(ResLabel(n)).labelCensoredPolicyWindow

\* C2: for every record whose deltaNetPnlPolicyWindowAtNowSize is non-null,
\* buyNowBeatsWaitWindow = (delta <= 0): true for a zero or negative delta, false
\* for a strictly positive one.
C2_BuyNowIffDeltaNonPositive ==
    \A n \in Outputs :
        (Labelled(n) /\ Val(ResLabel(n)).deltaNetPnlPolicyWindowAtNowSize # Null) =>
            LET delta == Val(Val(ResLabel(n)).deltaNetPnlPolicyWindowAtNowSize)
            IN  Val(ResLabel(n)).buyNowBeatsWaitWindow = Some(delta <= 0)

\* A label with delta exactly 0 (buy now) and one with a positive delta (wait).
C2_Witness ==
    /\ \E n \in Outputs :
          /\ Labelled(n)
          /\ Val(ResLabel(n)).deltaNetPnlPolicyWindowAtNowSize = Some(0)
          /\ Val(ResLabel(n)).buyNowBeatsWaitWindow = Some(TRUE)
    /\ \E n \in Outputs :
          /\ Labelled(n)
          /\ Val(ResLabel(n)).deltaNetPnlPolicyWindowAtNowSize # Null
          /\ Val(Val(ResLabel(n)).deltaNetPnlPolicyWindowAtNowSize) > 0
          /\ Val(ResLabel(n)).buyNowBeatsWaitWindow = Some(FALSE)

\* C3 as stated: a labelled record is censored iff no later record of its series
\* falls inside the policy window.
C3_CensoredIffNoRecordInPolicyWindow ==
    \A n \in Outputs :
        Labelled(n) =>
            (Val(ResLabel(n)).labelCensoredPolicyWindow
                <=> LaterUpTo(n, PolicyEnd(n)) = {})

\* The later records inside the policy window that yield a capacity-adjusted
\* uplift: the record's own capacity and the candidate's capacity are resolved
\* and the candidate has an edge.
UsableInPolicyWindow(n) ==
    { j \in LaterUpTo(n, PolicyEnd(n)) :
        /\ resolveCapacity(NowAt(n)) # Null
        /\ resolveCapacity(SeriesAt(n)[j]) # Null
        /\ safeNum(SeriesAt(n)[j].expectedEdgeAtDecision) # Null }

\* C3 (amended): a labelled record is censored iff no later record inside the
\* policy window yields a capacity-adjusted uplift, that is iff the policy window
\* holds no later record, or the record has no resolved capacity, or none of the
\* later records inside the policy window has one.
C3_CensoredIffNoUsableRecordInPolicyWindow ==
    \A n \in Outputs :
        Labelled(n) =>
            (Val(ResLabel(n)).labelCensoredPolicyWindow
                <=> UsableInPolicyWindow(n) = {})

\* A record censored although a later record lies inside its policy window
\* (capacity is missing), and an uncensored record.
C3_Witness ==
    /\ \E n \in Outputs :
          /\ Labelled(n) /\ Val(ResLabel(n)).labelCensoredPolicyWindow
          /\ LaterUpTo(n, PolicyEnd(n)) # {}
    /\ \E n \in Outputs : Labelled(n) /\ ~Val(ResLabel(n)).labelCensoredPolicyWindow

HorizonMinutes == [k \in {"15m", "1h", "3h"} |->
                      CASE k = "15m" -> 15 [] k = "1h" -> 60 [] OTHER -> 3 * 60]

\* min(now + h, now + 7d, resolutionTs)
HorizonEnd(n, k) == Min2(TsOf(NowAt(n)) + HorizonMinutes[k], CappedWindowEnd(n))

SetMax(S) == CHOOSE x \in S : \A y \in S : y <= x

\* Scenario A: one series of three records, edges 0.02, 0.05, 0.01 at minutes
\* 0, 30, 90, each with capacity 100.
IsScenarioA(seq) ==
    /\ Len(seq) = 3
    /\ \A k \in 1..3 :
          /\ TsOf(seq[k]) = <<0, 30, 90>>[k]
          /\ EdgeOf(seq[k]) = <<2, 5, 1>>[k]
          /\ resolveCapacity(seq[k]) = Some(100)

\* C5: for every record and horizon h in {15m, 1h, 3h}, with W the later records
\* of the series up to min(now+h, now+7d, resolutionTs): the label is null when W
\* is empty, and otherwise bestFutureEdge is the maximum edge over W,
\* minutesToBestEdge is the offset of a record of W attaining it, and improvesEdge
\* is (bestFutureEdge > own edge).  In scenario A the 1h label of record 0 has
\* bestFutureEdge 0.05, improvesEdge true, minutesToBestEdge 30.
C5_HorizonBestEdge ==
    \A n \in Outputs :
        /\ \A k \in {"15m", "1h", "3h"} :
              LET W == LaterUpTo(n, HorizonEnd(n, k))
                  lab == labeledRows[n].labels[k]
                  best == SetMax({ EdgeOf(SeriesAt(n)[j]) : j \in W })
              IN  IF W = {} THEN lab = Null
                  ELSE /\ lab # Null
                       /\ Val(lab).bestFutureEdge = best
                       /\ \E j \in W :
                             /\ EdgeOf(SeriesAt(n)[j]) = best
                             /\ Val(lab).minutesToBestEdge
                                  = Some(TsOf(SeriesAt(n)[j]) - TsOf(NowAt(n)))
                       /\ Val(lab).improvesEdge = (best > EdgeOf(NowAt(n)))
        /\ (IsScenarioA(SeriesAt(n)) /\ IdxAt(n) = 1) =>
              /\ labeledRows[n].labels["1h"] # Null
              /\ Val(labeledRows[n].labels["1h"]).bestFutureEdge = 5
              /\ Val(labeledRows[n].labels["1h"]).improvesEdge = TRUE
              /\ Val(labeledRows[n].labels["1h"]).minutesToBestEdge = Some(30)

\* Record 0 of scenario A has been labeled; a later record (at 90 minutes, past
\* the 1h horizon) exists and did not enter its 1h label.
C5_Witness ==
    \E n \in Outputs :
        /\ IsScenarioA(SeriesAt(n))
        /\ IdxAt(n) = 1
        /\ Val(labeledRows[n].labels["1h"]).bestFutureEdge = 5
        /\ LaterUpTo(n, HorizonEnd(n, "1h")) = {2}

\* C6: a record with no later record in its own series (the last record of a
\* series, a series of one record) gets null for the 15m, 1h, 3h and
\* resolution-anchored labels.
C6_LastRecordAllNull ==
    \A n \in Outputs :
        IdxAt(n) = Len(SeriesAt(n)) =>
            \A k \in {"15m", "1h", "3h", "resolutionAnchored"} :
                labeledRows[n].labels[k] = Null

\* The last record of a series of several records and the only record of
\* another series have both been labeled.
C6_Witness ==
    /\ \E n \in Outputs : IdxAt(n) = Len(SeriesAt(n)) /\ Len(SeriesAt(n)) > 1
    /\ \E n \in Outputs : Len(SeriesAt(n)) = 1

-----------------------------------------------------------------------------
(* resolveCapacity applied to a record whose two capacity fields hold any    *)
(* JavaScript value: the function is called on parsed JSON lines, so a field *)
(* may be absent, null, a number or a string.                                *)

MaxContracts == 3

CapacityValues ==
    {JsNull, JsUndef, JsInfinity, JsStr(""), JsStr("abc"), JsNumStr(2)}
        \cup {JsNum(k) : k \in -1..MaxContracts}

InitCapacity ==
    /\ pc = "capacity"
    /\ capRow \in [targetContractsAtDecision : CapacityValues,
                   minKernelContractsAtDecision : CapacityValues]
    /\ capOut = Null
    /\ LabelIdle /\ PhaseIdle /\ EvalIdle
    /\ WalkIdle /\ FitIdle /\ PredIdle /\ EdIdle /\ ParseIdle

CallResolveCapacity ==
    /\ pc = "capacity"
    /\ capOut' = resolveCapacity(capRow)
    /\ pc' = "capacityDone"
    /\ UNCHANGED <<capRow, labelVars, phaseVars, evalVars,
                 walkVars, fitVars, predVars, edVars, parseVars>>

NextCapacity == CallResolveCapacity

SpecCapacity == InitCapacity /\ [][NextCapacity]_vars

\* The candidate capacities of the record that are positive finite numbers
\* (a numeric string counts as the number it denotes).
PositiveFinite(v) == v.t \in {"number", "numstr"} /\ v.n > 0
PositiveFiniteOf(row) ==
    {v.n : v \in {w \in {row.targetContractsAtDecision,
                         row.minKernelContractsAtDecision} : PositiveFinite(w)}}

\* C7: resolveCapacity returns null or a positive number; it returns null
\* exactly when neither targetContractsAtDecision nor
\* minKernelContractsAtDecision is a positive finite number, and otherwise the
\* minimum of those of the two that are positive and finite.
C7_CapacityIsMinOfPositive ==
    pc = "capacityDone" =>
        LET P == PositiveFiniteOf(capRow)
        IN  /\ (capOut = Null) <=> (P = {})
            /\ capOut # Null =>
                  /\ Val(capOut) > 0
                  /\ Val(capOut) \in P
                  /\ \A x \in P : Val(capOut) <= x

\* A zero candidate next to a positive one: the positive one is returned.
C7_Witness ==
    /\ pc = "capacityDone"
    /\ capRow.targetContractsAtDecision = JsNum(0)
    /\ capRow.minKernelContractsAtDecision = JsNum(2)
    /\ capOut = Some(2)

-----------------------------------------------------------------------------
(* resolvePhaseKey applied to any time to resolution, in whole minutes from  *)
(* below zero to beyond seven days, or to null.                              *)

TtrMargin == 3
MaxPhaseHours == RESOLUTION_PHASES[1].maxHours

TtrValues ==
    {Null} \cup {Some(m) : m \in (0 - TtrMargin)..(MaxPhaseHours * MinutesPerHour + TtrMargin)}

InitPhase ==
    /\ pc = "phase"
    /\ ttrIn \in TtrValues
    /\ phaseOut = Null
    /\ LabelIdle /\ CapIdle /\ EvalIdle
    /\ WalkIdle /\ FitIdle /\ PredIdle /\ EdIdle /\ ParseIdle

CallResolvePhaseKey ==
    /\ pc = "phase"
    /\ phaseOut' = resolvePhaseKey(ttrIn)
    /\ pc' = "phaseDone"
    /\ UNCHANGED <<ttrIn, labelVars, capVars, evalVars,
                 walkVars, fitVars, predVars, edVars, parseVars>>

NextPhase == CallResolvePhaseKey

SpecPhase == InitPhase /\ [][NextPhase]_vars

\* The buckets of RESOLUTION_PHASES that hold a time to resolution (minutes).
BucketsHolding(m) ==
    {k \in 1..Len(RESOLUTION_PHASES) :
        /\ m >= RESOLUTION_PHASES[k].minHours * MinutesPerHour
        /\ m < RESOLUTION_PHASES[k].maxHours * MinutesPerHour}

\* C8: hours to resolution in [0,1) map to T_1h_close, [1,6) to T_6h_1h,
\* [6,24) to T_24h_6h, [24,72) to T_3d_1d, [72,168) to T_7d_3d, each value in
\* exactly one bucket; 168 hours or more, a negative value and null map to
\* phase null.
C8_PhasePartition ==
    pc = "phaseDone" =>
        IF ttrIn = Null THEN phaseOut = Null
        ELSE LET m == Val(ttrIn)
                 h == MinutesPerHour
             IN  /\ (0 <= m /\ m < 1 * h) => phaseOut = Some("T_1h_close")
                 /\ (1 * h <= m /\ m < 6 * h) => phaseOut = Some("T_6h_1h")
                 /\ (6 * h <= m /\ m < 24 * h) => phaseOut = Some("T_24h_6h")
                 /\ (24 * h <= m /\ m < 72 * h) => phaseOut = Some("T_3d_1d")
                 /\ (72 * h <= m /\ m < 168 * h) => phaseOut = Some("T_7d_3d")
                 /\ (m < 0 \/ m >= 168 * h) => phaseOut = Null
                 /\ (0 <= m /\ m < 168 * h) => Cardinality(BucketsHolding(m)) = 1

\* The boundary of seven days is resolved to no phase.
C8_Witness ==
    /\ pc = "phaseDone"
    /\ ttrIn = Some(MaxPhaseHours * MinutesPerHour)
    /\ phaseOut = Null

-----------------------------------------------------------------------------
(* Decision evaluation and threshold tuning.  Probabilities and thresholds   *)
(* are in units of 0.01; a mean is the pair <<sum, count>> of its quotient,  *)
(* Null for an empty list.  The rows are those left by the filter on         *)
(* censoring and null targets, so every _regTarget is a number.              *)

MaxEvalRows == 3

RECURSIVE SeqSum(_)
SeqSum(s) == IF s = <<>> THEN 0 ELSE Head(s) + SeqSum(Tail(s))

mean(values) ==
    IF Len(values) = 0 THEN Null ELSE Some(<<SeqSum(values), Len(values)>>)

DecisionsStrict(probs, t) ==
    [i \in 1..Len(probs) |-> IF probs[i] > t THEN "buy_now" ELSE "wait"]

Decisions(probs, t) ==
    [i \in 1..Len(probs) |-> IF probs[i] >= t THEN "buy_now" ELSE "wait"]

Indicator(decisions, d) ==
    [i \in 1..Len(decisions) |-> IF decisions[i] = d THEN 1 ELSE 0]

evaluate(evalRows, probs, t) ==
    LET decisions == Decisions(probs, t)
        rewards == [i \in 1..Len(evalRows) |->
                       IF decisions[i] = "buy_now" THEN 0 ELSE evalRows[i]._regTarget]
        oracle == [i \in 1..Len(evalRows) |-> Max2(0, evalRows[i]._regTarget)]
    IN  [decisions |-> decisions,
         rewards |-> rewards,
         threshold |-> t,
         rows |-> Len(evalRows),
         buyRate |-> mean(Indicator(decisions, "buy_now")),
         waitRate |-> mean(Indicator(decisions, "wait")),
         meanRelativePnlVsAlwaysBuyNow |-> mean(rewards),
         totalRelativePnlVsAlwaysBuyNow |-> SeqSum(rewards),
         meanOracleRelativePnlVsAlwaysBuyNow |-> mean(oracle),
         totalOracleRelativePnlVsAlwaysBuyNow |-> SeqSum(oracle)]

decisionPnl(evalRows, probs, t) ==
    LET rewards == [i \in 1..Len(evalRows) |->
                       IF probs[i] >= t THEN 0 ELSE evalRows[i]._regTarget]
    IN  [meanRelativePnl |-> mean(rewards),
         totalRelativePnl |-> SeqSum(rewards),
         buyRate |-> mean([i \in 1..Len(probs) |-> IF probs[i] >= t THEN 1 ELSE 0])]

grid == <<35, 40, 45, 50, 55, 60, 65>>

\* b.meanRelativePnl - a.meanRelativePnl as a sign; null - null is 0.
CompareTuning(a, b) ==
    IF a.meanRelativePnl = Null \/ b.meanRelativePnl = Null THEN 0
    ELSE LET x == Val(a.meanRelativePnl)
             y == Val(b.meanRelativePnl)
         IN  y[1] * x[2] - x[1] * y[2]

\* Array.prototype.sort is stable: an entry moves ahead of exactly the
\* entries the comparator orders after it.
RECURSIVE InsertTuningUnstable(_, _)
InsertTuningUnstable(s, e) ==
    IF s = <<>> THEN <<e>>
    ELSE IF CompareTuning(s[Len(s)], e) >= 0
         THEN Append(InsertTuningUnstable(SubSeq(s, 1, Len(s) - 1), e), s[Len(s)])
         ELSE Append(s, e)

RECURSIVE InsertTuning(_, _)
InsertTuning(s, e) ==
    IF s = <<>> THEN <<e>>
    ELSE IF CompareTuning(s[Len(s)], e) > 0
         THEN Append(InsertTuning(SubSeq(s, 1, Len(s) - 1), e), s[Len(s)])
         ELSE Append(s, e)

RECURSIVE SortTuning(_, _)
SortTuning(s, k) ==
    IF k = 0 THEN <<>> ELSE InsertTuning(SortTuning(s, k - 1), s[k])

TuningOf(evalRows, probs) ==
    LET results == [k \in 1..Len(grid) |->
                       [threshold |-> grid[k]] @@ decisionPnl(evalRows, probs, grid[k])]
    IN  SortTuning(results, Len(results))

RegTargets == {-5, 10, 20}
Probabilities == {30, 45, 50, 60, 90}

InitEval ==
    /\ pc = "eval"
    /\ \E n \in 0..MaxEvalRows :
          /\ evRows \in [1..n -> [_regTarget : RegTargets]]
          /\ evProbs \in [1..n -> Probabilities]
    /\ tuning = <<>> /\ threshold = Null /\ evOut = Null
    /\ LabelIdle /\ CapIdle /\ PhaseIdle
    /\ WalkIdle /\ FitIdle /\ PredIdle /\ EdIdle /\ ParseIdle

\* The grid search over the validation rows.
TuneThreshold ==
    /\ pc = "eval"
    /\ tuning' = TuningOf(evRows, evProbs)
    /\ threshold' = Some(tuning'[1].threshold)
    /\ pc' = "tuned"
    /\ UNCHANGED <<evRows, evProbs, evOut, labelVars, capVars, phaseVars,
                 walkVars, fitVars, predVars, edVars, parseVars>>

\* The evaluation of a split at the threshold read from the artifacts.
Evaluate ==
    /\ pc = "eval"
    /\ \E t \in {grid[k] : k \in 1..Len(grid)} :
          /\ threshold' = Some(t)
          /\ evOut' = Some(evaluate(evRows, evProbs, t))
    /\ pc' = "evaluated"
    /\ UNCHANGED <<evRows, evProbs, tuning, labelVars, capVars, phaseVars,
                 walkVars, fitVars, predVars, edVars, parseVars>>

NextEval == TuneThreshold \/ Evaluate

SpecEval == InitEval /\ [][NextEval]_vars

GridSet == {grid[k] : k \in 1..Len(grid)}

\* The total reward of the rows in evRows at a threshold, as the decision
\* rule states it: nothing for a row bought now, the target for a row waited.
RewardAt(i, t) == IF evProbs[i] >= t THEN 0 ELSE evRows[i]._regTarget
TotalRewardAt(t) == SeqSum([i \in 1..Len(evRows) |-> RewardAt(i, t)])

ScenarioC ==
    /\ evProbs = <<90, 30, 60>>
    /\ evRows = <<[_regTarget |-> 10], [_regTarget |-> -5], [_regTarget |-> 20]>>
    /\ threshold = Some(50)

\* C9: row i is decided buy_now iff its probability is at least the threshold
\* and wait otherwise; its reward is 0 for buy_now and its regression target
\* for wait; the mean relative PnL is the sum of the rewards over the number
\* of rows, in evaluate and in every decisionPnl of the grid search.
\* Probabilities [0.9,0.3,0.6] at threshold 0.5 with targets [10,-5,20] give
\* decisions [buy_now, wait, buy_now], rewards [0,-5,0] and mean -5/3.
C9_DecisionEvaluation ==
    /\ pc = "evaluated" =>
          LET t == Val(threshold)
              o == Val(evOut)
              n == Len(evRows)
          IN  /\ Len(o.decisions) = n /\ Len(o.rewards) = n
              /\ \A i \in 1..n :
                    /\ o.decisions[i] \in {"buy_now", "wait"}
                    /\ (o.decisions[i] = "buy_now") <=> (evProbs[i] >= t)
                    /\ o.rewards[i] =
                          IF o.decisions[i] = "buy_now" THEN 0 ELSE evRows[i]._regTarget
              /\ n > 0 => o.meanRelativePnlVsAlwaysBuyNow = Some(<<TotalRewardAt(t), n>>)
              /\ ScenarioC =>
                    /\ o.decisions = <<"buy_now", "wait", "buy_now">>
                    /\ o.rewards = <<0, -5, 0>>
                    /\ o.meanRelativePnlVsAlwaysBuyNow = Some(<<-5, 3>>)
    /\ pc = "tuned" =>
          \A k \in 1..Len(tuning) :
              /\ tuning[k].totalRelativePnl = TotalRewardAt(tuning[k].threshold)
              /\ Len(evRows) > 0 =>
                    tuning[k].meanRelativePnl =
                        Some(<<TotalRewardAt(tuning[k].threshold), Len(evRows)>>)

\* Scenario C has been evaluated.
C9_Witness ==
    /\ pc = "evaluated"
    /\ ScenarioC
    /\ Val(evOut).decisions = <<"buy_now", "wait", "buy_now">>

\* C10: the tuned threshold is a member of the grid, its validation mean
\* relative PnL is at least that of every other grid threshold, and of the
\* grid thresholds attaining the highest mean the lowest is selected.  The
\* means are over the same rows, so they compare as their totals do.
C10_TunedThresholdIsLowestBest ==
    pc = "tuned" =>
        LET t == Val(threshold)
        IN  /\ t \in GridSet
            /\ \A g \in GridSet : TotalRewardAt(t) >= TotalRewardAt(g)
            /\ \A g \in GridSet : TotalRewardAt(g) = TotalRewardAt(t) => t <= g

\* A tie for the highest mean between 0.50 and a higher threshold, with a
\* lower threshold doing worse: 0.50 is selected.
C10_Witness ==
    /\ pc = "tuned"
    /\ threshold = Some(50)
    /\ \E g \in GridSet : g > 50 /\ TotalRewardAt(g) = TotalRewardAt(50)
    /\ \E g \in GridSet : g < 50 /\ TotalRewardAt(g) < TotalRewardAt(50)

----------------------------------------------------------------------------
(* Walk-forward backtest (src/unnamed/part_000).                            *)
(*                                                                          *)
(* The script works on thousands of rows (a window is 1950 rows).  A row    *)
(* list is held run-length encoded: a sequence of runs [row, n], n >= 1     *)
(* copies of one row in a row, adjacent runs of the same row merged.  Row   *)
(* positions are the 0-based positions of the decoded list.                 *)

RECURSIVE CountRuns(_)
CountRuns(rs) == IF rs = <<>> THEN 0 ELSE Head(rs).n + CountRuns(Tail(rs))

RECURSIVE Normalize(_)
Normalize(rs) ==
    IF Len(rs) < 2 THEN rs
    ELSE IF rs[1].row = rs[2].row
         THEN Normalize(<<[row |-> rs[1].row, n |-> rs[1].n + rs[2].n]>> \o SubSeq(rs, 3, Len(rs)))
         ELSE <<rs[1]>> \o Normalize(Tail(rs))

\* The part of the run of length n at positions [0, n) that lies in [a, b).
RunPart(run, a, b) ==
    IF Min2(run.n, b) - Max2(a, 0) > 0
    THEN <<[row |-> run.row, n |-> Min2(run.n, b) - Max2(a, 0)]>>
    ELSE <<>>

\* Array.prototype.slice(a, b) for 0 <= a <= b.
RECURSIVE SliceRuns(_, _, _)
SliceRuns(rs, a, b) ==
    IF rs = <<>> \/ b <= 0 THEN <<>>
    ELSE RunPart(Head(rs), a, b) \o SliceRuns(Tail(rs), a - Head(rs).n, b - Head(rs).n)

\* The row at a position of the list.
RECURSIVE RowAt(_, _)
RowAt(rs, k) == IF k < Head(rs).n THEN Head(rs).row ELSE RowAt(Tail(rs), k - Head(rs).n)

\* The distinct rows of a list.
RowSet(rs) == {rs[i].row : i \in DOMAIN rs}

MIN_SEGMENT_ROWS == 80

\* Fields of a parsed line of the labeled dataset.  Numeric label fields are
\* JavaScript values, string fields are Null (null or missing) or Some(s).
LabeledRow(ts, res, tax, venue, edge) ==
    [decisionTs |-> ts,
     labels |-> Some([resolutionAnchored |-> res, taxonomy |-> tax]),
     leg1Venue |-> venue,
     leg2Venue |-> Some("polymarket"),
     leg1OrderIntent |-> Some("buy"),
     leg2OrderIntent |-> Null,
     expectedEdgeAtDecision |-> edge]

ResLabels(buyNow, delta, censored, phase, ttr) ==
    Some([buyNowBeatsWaitWindow |-> buyNow,
          deltaNetPnlPolicyWindowAtNowSize |-> delta,
          labelCensoredPolicyWindow |-> censored,
          phaseNow |-> phase,
          timeToResolutionHoursNow |-> ttr,
          policyWindowHours |-> JsNum(24)])

TaxLabels(domain) == Some([domain |-> domain])

\* row.labels?.resolutionAnchored and row.labels?.taxonomy
ResOf(row) == IF row.labels = Null THEN Null ELSE Val(row.labels).resolutionAnchored
TaxOf(row) == IF row.labels = Null THEN Null ELSE Val(row.labels).taxonomy

\* x ?? d on a nullable string
OrElse(o, d) == IF o = Null THEN d ELSE Val(o)

PrepareCls(res) ==
    IF res.buyNowBeatsWaitWindow = Null THEN Null
    ELSE IF Val(res.buyNowBeatsWaitWindow) THEN Some(1) ELSE Some(0)

\* The object pushed for a row that has both label groups and a valid
\* decisionTs.  Of the spread `...row` the fields later code reads are kept.
PreparedRow(row, res, tax) ==
    [leg1Venue |-> row.leg1Venue,
     leg2Venue |-> row.leg2Venue,
     leg1OrderIntent |-> row.leg1OrderIntent,
     leg2OrderIntent |-> row.leg2OrderIntent,
     expectedEdgeAtDecision |-> row.expectedEdgeAtDecision,
     _decisionTsMs |-> Val(DateGetTime(row.decisionTs)),
     _regTarget |-> safeNum(res.deltaNetPnlPolicyWindowAtNowSize),
     _clsTarget |-> PrepareCls(res),
     _censored |-> res.labelCensoredPolicyWindow,
     _phaseNow |-> OrElse(res.phaseNow, "unknown"),
     _ttrHours |-> safeNum(res.timeToResolutionHoursNow),
     _policyWindowHours |-> safeNum(res.policyWindowHours),
     _taxonomyDomain |-> OrElse(tax.domain, "other"),
     _segmentKey |-> <<OrElse(tax.domain, "other"), OrElse(res.phaseNow, "unknown")>>]

\* if (!res || !tax) continue; if (!Number.isFinite(ts)) continue;
Preparable(row) ==
    /\ ResOf(row) # Null
    /\ TaxOf(row) # Null
    /\ DateGetTime(row.decisionTs) # Null

PrepareRun(run) ==
    [row |-> PreparedRow(run.row, Val(ResOf(run.row)), Val(TaxOf(run.row))), n |-> run.n]

\* out.sort((a, b) => a._decisionTsMs - b._decisionTsMs), run by run: the
\* sort is stable, so a run goes after every run that is not later.
RECURSIVE InsertRunByTs(_, _)
InsertRunByTs(s, r) ==
    IF s = <<>> THEN <<r>>
    ELSE IF s[Len(s)].row._decisionTsMs - r.row._decisionTsMs > 0
         THEN Append(InsertRunByTs(SubSeq(s, 1, Len(s) - 1), r), s[Len(s)])
         ELSE Append(s, r)

RECURSIVE SortRunsByTs(_)
SortRunsByTs(s) ==
    IF s = <<>> THEN <<>>
    ELSE InsertRunByTs(SortRunsByTs(SubSeq(s, 1, Len(s) - 1)), s[Len(s)])

RECURSIVE PrepareEach(_)
PrepareEach(raw) ==
    IF raw = <<>> THEN <<>>
    ELSE (IF Preparable(Head(raw).row) THEN <<PrepareRun(Head(raw))>> ELSE <<>>) \o PrepareEach(Tail(raw))

prepareRowsUnsorted(raw) == Normalize(PrepareEach(raw))
prepareRows(raw) == Normalize(SortRunsByTs(PrepareEach(raw)))

\* The strings of the model in the order Array.prototype.sort() gives them
\* (ascending UTF-16 code units: "T" sorts before every lower-case letter).
CodeUnitOrder ==
    <<"T_1h_close", "T_24h_6h", "T_3d_1d", "T_6h_1h", "T_7d_3d",
      "buy", "finance", "kalshi", "other", "politics", "polymarket",
      "sell", "sports", "unknown">>

CodeUnitRank(x) == CHOOSE i \in DOMAIN CodeUnitOrder : CodeUnitOrder[i] = x

\* [...new Set(values)]: the distinct values in order of first occurrence.
DistinctKeepingAll(values) == values
RECURSIVE Distinct(_)
Distinct(values) ==
    IF values = <<>> THEN <<>>
    ELSE IF \E i \in 1..(Len(values) - 1) : values[i] = values[Len(values)]
         THEN Distinct(SubSeq(values, 1, Len(values) - 1))
         ELSE Append(Distinct(SubSeq(values, 1, Len(values) - 1)), values[Len(values)])

RECURSIVE InsertString(_, _)
InsertString(s, x) ==
    IF s = <<>> THEN <<x>>
    ELSE IF CodeUnitRank(s[Len(s)]) > CodeUnitRank(x)
         THEN Append(InsertString(SubSeq(s, 1, Len(s) - 1), x), s[Len(s)])
         ELSE Append(s, x)

RECURSIVE SortStrings(_)
SortStrings(s) ==
    IF s = <<>> THEN <<>>
    ELSE InsertString(SortStrings(SubSeq(s, 1, Len(s) - 1)), s[Len(s)])

\* [...new Set(values)].sort()
Buckets(values) == SortStrings(Distinct(values))

\* trainRows.map((r) => r.leg1Venue ?? "unknown") and the like, one value
\* for each stretch of equal rows
PhaseValues(trainRows) == [i \in DOMAIN trainRows |-> trainRows[i].row._phaseNow]
DomainValues(trainRows) == [i \in DOMAIN trainRows |-> trainRows[i].row._taxonomyDomain]
Leg1VenueValues(trainRows) == [i \in DOMAIN trainRows |-> OrElse(trainRows[i].row.leg1Venue, "unknown")]
Leg2VenueValues(trainRows) == [i \in DOMAIN trainRows |-> OrElse(trainRows[i].row.leg2Venue, "unknown")]
Leg1IntentValues(trainRows) == [i \in DOMAIN trainRows |-> OrElse(trainRows[i].row.leg1OrderIntent, "unknown")]
Leg2IntentValues(trainRows) == [i \in DOMAIN trainRows |-> OrElse(trainRows[i].row.leg2OrderIntent, "unknown")]

numericKeys ==
    <<"expectedEdgeAtDecision", "targetContractsAtDecision",
      "minKernelContractsAtDecision", "avgLegPriceAtDecision",
      "budgetUsdAtDecision", "requestUsd", "availableUsd", "legCount",
      "_ttrHours", "_policyWindowHours">>

buildSchema(trainRows) ==
    [numericKeys |-> numericKeys,
     phaseBuckets |-> Buckets(PhaseValues(trainRows)),
     domainBuckets |-> Buckets(DomainValues(trainRows)),
     leg1VenueBuckets |-> Buckets(Leg1VenueValues(trainRows)),
     leg2VenueBuckets |-> Buckets(Leg2VenueValues(trainRows)),
     leg1IntentBuckets |-> Buckets(Leg1IntentValues(trainRows)),
     leg2IntentBuckets |-> Buckets(Leg2IntentValues(trainRows))]

\* safeNum(r[key]): a key the row does not have reads as undefined; the two
\* derived keys already hold the result of safeNum.
NumericOf(r, key) ==
    IF key \notin DOMAIN r THEN Null
    ELSE IF key \in {"_ttrHours", "_policyWindowHours"} THEN r[key]
    ELSE safeNum(r[key])

\* Over the rows whose value of the key is not null: their number, the sum
\* of the values and the sum of their squares.
RECURSIVE KeyCount(_, _)
KeyCount(rs, key) ==
    IF rs = <<>> THEN 0
    ELSE (IF NumericOf(Head(rs).row, key) = Null THEN 0 ELSE Head(rs).n) + KeyCount(Tail(rs), key)

RECURSIVE KeySum(_, _)
KeySum(rs, key) ==
    IF rs = <<>> THEN 0
    ELSE (IF NumericOf(Head(rs).row, key) = Null THEN 0 ELSE Head(rs).n * Val(NumericOf(Head(rs).row, key))) + KeySum(Tail(rs), key)

RECURSIVE KeySumSq(_, _)
KeySumSq(rs, key) ==
    IF rs = <<>> THEN 0
    ELSE (IF NumericOf(Head(rs).row, key) = Null THEN 0 ELSE Head(rs).n * Val(NumericOf(Head(rs).row, key)) * Val(NumericOf(Head(rs).row, key))) + KeySumSq(Tail(rs), key)

\* mu = mean(vals) ?? 0, as the quotient <<sum, count>>.
ScalerMean(cnt, sum) == IF cnt = 0 THEN <<0, 1>> ELSE <<sum, cnt>>

\* The variance mean((v - mu)^2) ?? 1 as a quotient: with count n, sum S and
\* sum of squares Q it is (n*Q - S*S) / (n*n).
ScalerVariance(cnt, sum, sumSq) == IF cnt = 0 THEN <<1, 1>> ELSE <<cnt * sumSq - sum * sum, cnt * cnt>>

\* std: sd > 1e-8 ? sd : 1, held as the quotient whose square root it is (a
\* variance of integers over at most a few thousand rows is 0 or far above
\* 1e-16).
ScalerStd(variance) == IF variance[1] > 0 THEN [sqrtOf |-> variance] ELSE [sqrtOf |-> <<1, 1>>]

KeyStats(cnt, sum, sumSq) == [mean |-> ScalerMean(cnt, sum), std |-> ScalerStd(ScalerVariance(cnt, sum, sumSq))]

fitScaler(trainRows, keys) ==
    [k \in {keys[i] : i \in DOMAIN keys} |-> KeyStats(KeyCount(trainRows, k), KeySum(trainRows, k), KeySumSq(trainRows, k))]

\* Quantiles are taken at q = 0.05, 0.5 and 0.95, multiples of 1/20: q is
\* given in twentieths and the result is returned in twentieths.
QuantileUnit == 20

\* values sorted ascending, as runs [row |-> value, n |-> count]
RECURSIVE InsertValue(_, _)
InsertValue(s, r) ==
    IF s = <<>> THEN <<r>>
    ELSE IF s[Len(s)].row - r.row > 0
         THEN Append(InsertValue(SubSeq(s, 1, Len(s) - 1), r), s[Len(s)])
         ELSE Append(s, r)

RECURSIVE SortValues(_)
SortValues(s) ==
    IF s = <<>> THEN <<>>
    ELSE InsertValue(SortValues(SubSeq(s, 1, Len(s) - 1)), s[Len(s)])

\* s[lo] * (1 - frac) + s[hi] * frac with idx = (length - 1) * q
Interpolate(sorted, idx20) ==
    IF idx20 % QuantileUnit = 0
    THEN QuantileUnit * RowAt(sorted, idx20 \div QuantileUnit)
    ELSE RowAt(sorted, idx20 \div QuantileUnit) * (QuantileUnit - (idx20 % QuantileUnit))
         + RowAt(sorted, idx20 \div QuantileUnit + 1) * (idx20 % QuantileUnit)

quantile(values, q20) ==
    IF values = <<>> THEN Null
    ELSE Some(Interpolate(SortValues(values), (CountRuns(values) - 1) * q20))

\* clip(v, lo, hi) = Math.max(lo, Math.min(hi, v))
clipNoUpper(v, lo, hi) == Max2(lo, v)
clip(v, lo, hi) == Max2(lo, Min2(hi, v))

\* rows.map((r) => r._regTarget)
RegTargetRuns(rs) == [i \in DOMAIN rs |-> [row |-> Val(rs[i].row._regTarget), n |-> rs[i].n]]

----------------------------------------------------------------------------
(* Fitted values.                                                           *)
(*                                                                          *)
(* ridgeTrain, logisticTrain and fitPlatt are fixed numbers of gradient     *)
(* steps from a fixed start, sigmoid and dot are arithmetic: each is a      *)
(* function of its arguments and of nothing else.  The model does not       *)
(* compute their floating-point results; it holds such a value as the name  *)
(* of the computation and the row slices the computation was given,         *)
(* directly or through its arguments.                                       *)

Rows(role, rs) == [fn |-> "rows", from |-> {<<role, rs>>}]
Apply(name, args) == [fn |-> name, from |-> UNION {args[i].from : i \in DOMAIN args}]

\* .filter((r) => !r._censored && r._regTarget !== null)
UsableRun(run) == ~run.row._censored /\ run.row._regTarget # Null
UsableRows(rs) == Normalize(SelectSeq(rs, UsableRun))

\* const schema = buildSchema(train); const scaler = fitScaler(train, ...)
SchemaOf(train) == Apply("buildSchema", <<Rows("train", train)>>)
ScalerOf(train) == Apply("fitScaler", <<Rows("train", train), SchemaOf(train)>>)

\* vectorize = (rowsIn) => rowsIn.map((r) => buildVector(r, schema, scaler))
vectorize(rowsIn, train) == Apply("vectorize", <<rowsIn, SchemaOf(train), ScalerOf(train)>>)

WinsorLo(train) == Val(quantile(RegTargetRuns(train), 1))
WinsorHi(train) == Val(quantile(RegTargetRuns(train), 19))

RegGlobalW(train) ==
    Apply("ridgeTrain", <<vectorize(Rows("train", train), train), Apply("regTrainY", <<Rows("train", train)>>)>>)

ClsGlobalW(train) ==
    Apply("logisticTrain", <<vectorize(Rows("train", train), train), Apply("clsTrainY", <<Rows("train", train)>>)>>)

\* groupBySegment(train): the keys, and the rows of one key in their order.
SegmentKeys(train) == {train[i].row._segmentKey : i \in DOMAIN train}
SegmentRun(run, seg) == run.row._segmentKey = seg
SegmentRows(train, seg) == Normalize(SelectSeq(train, LAMBDA run : SegmentRun(run, seg)))

\* cy.filter((x) => x === c).length with cy = segRows.map((r) => r._clsTarget ?? 0)
RECURSIVE ClassCount(_, _)
ClassCount(rs, c) ==
    IF rs = <<>> THEN 0
    ELSE (IF OrElse(Head(rs).row._clsTarget, 0) = c THEN Head(rs).n ELSE 0) + ClassCount(Tail(rs), c)

SegmentLo(segRows) == Val(quantile(RegTargetRuns(segRows), 1))
SegmentHi(segRows) == Val(quantile(RegTargetRuns(segRows), 19))

RegSegmentOf(segRows, train) ==
    [lo |-> SegmentLo(segRows),
     hi |-> SegmentHi(segRows),
     w |-> Apply("ridgeTrain", <<vectorize(Rows("segRows", segRows), train), Apply("regY", <<Rows("segRows", segRows)>>)>>)]

ClsSegmentOf(segRows, train) ==
    [w |-> Apply("logisticTrain", <<vectorize(Rows("segRows", segRows), train), Apply("cy", <<Rows("segRows", segRows)>>)>>)]

\* Variant: a segment of exactly MIN_SEGMENT_ROWS rows is skipped too.
RegSegmentKeysAbove(train) == {seg \in SegmentKeys(train) : CountRuns(SegmentRows(train, seg)) > MIN_SEGMENT_ROWS}

\* if (segRows.length < MIN_SEGMENT_ROWS) continue;
RegSegmentKeys(train) == {seg \in SegmentKeys(train) : CountRuns(SegmentRows(train, seg)) >= MIN_SEGMENT_ROWS}

\* if (p > 0 && n > 0) clsSegments[seg] = ...
ClsSegmentKeys(train) ==
    {seg \in RegSegmentKeys(train) : ClassCount(SegmentRows(train, seg), 1) > 0 /\ ClassCount(SegmentRows(train, seg), 0) > 0}

RegSegments(train) == [seg \in RegSegmentKeys(train) |-> RegSegmentOf(SegmentRows(train, seg), train)]
ClsSegments(train) == [seg \in ClsSegmentKeys(train) |-> ClsSegmentOf(SegmentRows(train, seg), train)]

\* predictLogit = (row) => dot(seg ? seg.w : clsGlobalW, buildVector(row, schema, scaler))
ApplySet(name, terms) == [fn |-> name, from |-> UNION {t.from : t \in terms}]
ClsSegmentWeights(train) == ApplySet("clsSegments", {Rows("train", train)} \cup {ClsSegments(train)[seg].w : seg \in ClsSegmentKeys(train)})
PredictLogit(train) ==
    Apply("predictLogit", <<SchemaOf(train), ScalerOf(train), ClsSegmentWeights(train), ClsGlobalW(train)>>)

\* validLogits = valid.map(predictLogit), validLabels = valid.map(...):
\* the rows Platt scaling is fitted on.
CalibrationRowsFromTest(valid, test) == Rows("test", test)
CalibrationRows(valid, test) == Rows("valid", valid)

Platt(train, calibration) ==
    Apply("fitPlatt", <<Apply("logits", <<calibration, PredictLogit(train)>>), Apply("labels", <<calibration>>)>>)

\* predictProb = (row) => sigmoid(platt.a * predictLogit(row) + platt.b)
PredictProb(train, valid, test) ==
    Apply("predictProb", <<Platt(train, CalibrationRows(valid, test)), PredictLogit(train)>>)

\* tuning = grid.map((t) => ({threshold: t, ...decisionPnl(valid, validProbs, t)})).sort(...)
Tuning(train, valid, test) ==
    Apply("tuning", <<Rows("valid", valid), Apply("validProbs", <<Rows("valid", valid), PredictProb(train, valid, test)>>)>>)

Threshold(train, valid, test) == Apply("tuning[0].threshold", <<Tuning(train, valid, test)>>)

\* testDecision = decisionPnl(test, test.map(predictProb), threshold)
TestDecision(train, valid, test) ==
    Apply("decisionPnl", <<Rows("test", test), Apply("testProbs", <<Rows("test", test), PredictProb(train, valid, test)>>), Threshold(train, valid, test)>>)

\* What runWindow fits before it scores the test slice.
WindowArtifacts(train, valid, test) ==
    [schema |-> buildSchema(train),
     scaler |-> fitScaler(train, numericKeys),
     schemaFit |-> SchemaOf(train),
     scalerFit |-> ScalerOf(train),
     winsorLo |-> WinsorLo(train),
     winsorHi |-> WinsorHi(train),
     regGlobalW |-> RegGlobalW(train),
     clsGlobalW |-> ClsGlobalW(train),
     regSegments |-> RegSegments(train),
     clsSegments |-> ClsSegments(train),
     platt |-> Platt(train, CalibrationRows(valid, test)),
     threshold |-> Threshold(train, valid, test)]

WindowResult(train, valid, test) ==
    [threshold |-> Threshold(train, valid, test),
     trainRows |-> CountRuns(train),
     validRows |-> CountRuns(valid),
     testRows |-> CountRuns(test),
     validBestMeanRelativePnl |-> Apply("tuning[0].meanRelativePnl", <<Tuning(train, valid, test)>>),
     meanRelativePnl |-> Apply("meanRelativePnl", <<TestDecision(train, valid, test)>>),
     totalRelativePnl |-> Apply("totalRelativePnl", <<TestDecision(train, valid, test)>>),
     buyRate |-> Apply("buyRate", <<TestDecision(train, valid, test)>>)]

\* windowRows.slice(0, trainCount), .slice(trainCount, trainCount + validCount),
\* .slice(trainCount + validCount, trainCount + validCount + testCount)
TrainPart(windowRows, nTrain) == SliceRuns(windowRows, 0, nTrain)
ValidPart(windowRows, nTrain, nValid) == SliceRuns(windowRows, nTrain, nTrain + nValid)
TestPartFromValid(windowRows, nTrain, nValid, nTest) == SliceRuns(windowRows, nTrain, nTrain + nValid + nTest)
TestPart(windowRows, nTrain, nValid, nTest) == SliceRuns(windowRows, nTrain + nValid, nTrain + nValid + nTest)

TrainSlice(windowRows, nTrain) == UsableRows(TrainPart(windowRows, nTrain))
ValidSlice(windowRows, nTrain, nValid) == UsableRows(ValidPart(windowRows, nTrain, nValid))
TestSlice(windowRows, nTrain, nValid, nTest) == UsableRows(TestPart(windowRows, nTrain, nValid, nTest))

\* if (train.length < 200 || valid.length < 50 || test.length < 50) return null
EnoughRowsAlways(train, valid, test) == TRUE
EnoughRows(train, valid, test) == ~(CountRuns(train) < 200 \/ CountRuns(valid) < 50 \/ CountRuns(test) < 50)

runWindow(windowRows, nTrain, nValid, nTest) ==
    IF EnoughRows(TrainSlice(windowRows, nTrain), ValidSlice(windowRows, nTrain, nValid), TestSlice(windowRows, nTrain, nValid, nTest))
    THEN Some(WindowResult(TrainSlice(windowRows, nTrain), ValidSlice(windowRows, nTrain, nValid), TestSlice(windowRows, nTrain, nValid, nTest)))
    ELSE Null

----------------------------------------------------------------------------
(* The walk-forward script: read, prepare, loop over the windows, report.   *)

trainCount == 1400
validCount == 300
testCount == 250
stride == 150
required == trainCount + validCount + testCount

MaxRuns == 3
MaxClock == 2

KindA(ts) ==
    LabeledRow(JsDate(ts), ResLabels(Some(FALSE), JsNum(10), FALSE, Some("T_24h_6h"), JsNum(12)), TaxLabels(Some("finance")), Some("kalshi"), JsNum(2))
KindAWin(ts) ==
    LabeledRow(JsDate(ts), ResLabels(Some(TRUE), JsNum(-4), FALSE, Some("T_24h_6h"), JsNum(12)), TaxLabels(Some("finance")), Some("kalshi"), JsNum(6))
KindB(ts) ==
    LabeledRow(JsDate(ts), ResLabels(Some(TRUE), JsNum(-5), FALSE, Some("T_1h_close"), JsNull), TaxLabels(Null), Null, JsNum(4))
KindCensored(ts) ==
    LabeledRow(JsDate(ts), ResLabels(Null, JsNull, TRUE, Some("T_3d_1d"), JsNum(30)), TaxLabels(Some("politics")), Some("polymarket"), JsNum(8))
KindNoTarget(ts) ==
    LabeledRow(JsDate(ts), ResLabels(Null, JsNull, FALSE, Null, JsNull), TaxLabels(Some("sports")), Some("kalshi"), JsNull)
KindUnlabeled(ts) ==
    [decisionTs |-> JsDate(ts), labels |-> Null, leg1Venue |-> Null, leg2Venue |-> Null,
     leg1OrderIntent |-> Null, leg2OrderIntent |-> Null, expectedEdgeAtDecision |-> JsNull]

\* Stretches of lines of the labeled dataset: a row and how many times in a
\* row the file holds it.
RawRuns ==
    { [row |-> KindA(10), n |-> 1400],
      [row |-> KindB(30), n |-> 1400],
      [row |-> KindA(40), n |-> 250],
      [row |-> KindCensored(20), n |-> 300],
      [row |-> KindCensored(20), n |-> 250],
      [row |-> KindNoTarget(40), n |-> 150],
      [row |-> KindUnlabeled(5), n |-> 150] }

RawFiles == UNION {[1..k -> RawRuns] : k \in 0..MaxRuns}

\* The positions 0 .. len-1 of a list in blocks of 50 consecutive positions
\* (every stretch of the input, every slice bound and the stride is a
\* multiple of 50): block b holds the positions 50*(b-1) .. 50*b - 1.
PositionBlocks(len) == [b \in 1..(len \div 50) |-> [row |-> b, n |-> 50]]

\* allRows.slice(start, start + required)
WindowSlice(all, from) == SliceRuns(all, from, from + required)

TsSet(rs) == {rs[i].row._decisionTsMs : i \in DOMAIN rs}

\* What one iteration of the loop worked on: the positions of allRows in
\* its three slices and the decision times found there.
AttemptLog(all, from, result) ==
    [start |-> from,
     train |-> RowSet(TrainPart(WindowSlice(PositionBlocks(CountRuns(all)), from), trainCount)),
     valid |-> RowSet(ValidPart(WindowSlice(PositionBlocks(CountRuns(all)), from), trainCount, validCount)),
     test |-> RowSet(TestPart(WindowSlice(PositionBlocks(CountRuns(all)), from), trainCount, validCount, testCount)),
     trainTs |-> TsSet(TrainPart(WindowSlice(all, from), trainCount)),
     validTs |-> TsSet(ValidPart(WindowSlice(all, from), trainCount, validCount)),
     testTs |-> TsSet(TestPart(WindowSlice(all, from), trainCount, validCount, testCount)),
     reported |-> result # Null]

\* windows.push({windowIndex: windows.length + 1, startTs, endTs, ...result})
WindowEntry(done, slice, result) ==
    [windowIndex |-> Len(done) + 1,
     startTs |-> RowAt(slice, 0)._decisionTsMs,
     endTs |-> RowAt(slice, CountRuns(slice) - 1)._decisionTsMs] @@ result

PushWindowAlways(done, slice, result) == Append(done, WindowEntry(done, slice, Val(result)))
PushWindow(done, slice, result) ==
    IF result = Null THEN done ELSE Append(done, WindowEntry(done, slice, Val(result)))

\* mean(values) and quantile(values, 0.5) of fitted values
MeanOfFitted(values) == IF values = <<>> THEN Null ELSE Some(Apply("mean", values))
MedianOfFitted(values) == IF values = <<>> THEN Null ELSE Some(Apply("quantile 0.5", values))

PnlList(ws) == [i \in DOMAIN ws |-> ws[i].totalRelativePnl]
BuyRates(ws) == [i \in DOMAIN ws |-> ws[i].buyRate]
\* windows.map((w) => (w.totalRelativePnl > 0 ? 1 : 0))
Profitable(ws) == [i \in DOMAIN ws |-> Apply("totalRelativePnl > 0", <<ws[i].totalRelativePnl>>)]

ReportSummary(ws) ==
    [windowCount |-> Len(ws),
     meanTotalRelativePnlPerWindow |-> MeanOfFitted(PnlList(ws)),
     medianTotalRelativePnlPerWindow |-> MedianOfFitted(PnlList(ws)),
     profitableWindowRate |-> MeanOfFitted(Profitable(ws)),
     meanBuyRate |-> MeanOfFitted(BuyRates(ws))]

ReportConfig ==
    [trainCount |-> trainCount, validCount |-> validCount, testCount |-> testCount,
     stride |-> stride, minSegmentRows |-> MIN_SEGMENT_ROWS]

\* generatedAt: new Date().toISOString()
ReportCountingClock(now, ws) == [generatedAt |-> now, config |-> ReportConfig, summary |-> [ReportSummary(ws) EXCEPT !.windowCount = now], windows |-> ws]
Report(now, ws) == [generatedAt |-> now, config |-> ReportConfig, summary |-> ReportSummary(ws), windows |-> ws]

InitWalk ==
    /\ pc = "walkRead"
    /\ wfRaw \in RawFiles
    /\ allRows = <<>> /\ start = 0 /\ windows = <<>> /\ attempted = <<>>
    /\ report = Null /\ clock = 0 /\ firstReport = Null
    /\ LabelIdle /\ CapIdle /\ PhaseIdle /\ EvalIdle
    /\ FitIdle /\ PredIdle /\ EdIdle /\ ParseIdle

\* const allRows = prepareRows(...)
PrepareRows ==
    /\ pc = "walkRead"
    /\ allRows' = prepareRows(wfRaw)
    /\ start' = 0
    /\ windows' = <<>>
    /\ attempted' = <<>>
    /\ pc' = "walkLoop"
    /\ UNCHANGED <<wfRaw, report, clock, firstReport>>
    /\ UNCHANGED <<labelVars, capVars, phaseVars, evalVars, fitVars, predVars, edVars, parseVars>>

\* one iteration of for (start = 0; start + required <= allRows.length; start += stride)
WindowStep ==
    /\ pc = "walkLoop"
    /\ start + required <= CountRuns(allRows)
    /\ windows' = PushWindow(windows, WindowSlice(allRows, start), runWindow(WindowSlice(allRows, start), trainCount, validCount, testCount))
    /\ attempted' = Append(attempted, AttemptLog(allRows, start, IF Len(windows') > Len(windows) THEN Some(windows'[Len(windows')]) ELSE Null))
    /\ start' = start + stride
    /\ UNCHANGED <<pc, wfRaw, allRows, report, clock, firstReport>>
    /\ UNCHANGED <<labelVars, capVars, phaseVars, evalVars, fitVars, predVars, edVars, parseVars>>

\* the loop is over: build the report and write it
WriteReport ==
    /\ pc = "walkLoop"
    /\ ~(start + required <= CountRuns(allRows))
    /\ \E now \in clock..MaxClock :
         /\ clock' = now
         /\ report' = Some(Report(now, windows))
    /\ pc' = "walkDone"
    /\ UNCHANGED <<wfRaw, allRows, start, windows, attempted, firstReport>>
    /\ UNCHANGED <<labelVars, capVars, phaseVars, evalVars, fitVars, predVars, edVars, parseVars>>

\* the script is started again on the same file
RunAgain ==
    /\ pc = "walkDone"
    /\ firstReport = Null
    /\ firstReport' = report
    /\ report' = Null
    /\ pc' = "walkRead"
    /\ UNCHANGED <<wfRaw, allRows, start, windows, attempted, clock>>
    /\ UNCHANGED <<labelVars, capVars, phaseVars, evalVars, fitVars, predVars, edVars, parseVars>>

NextWalk == PrepareRows \/ WindowStep \/ WriteReport

SpecWalk == InitWalk /\ [][NextWalk]_vars

\* Two runs of the script, one after the other, on one file.
MaxRerunRuns == 2
RerunFiles == UNION {[1..k -> RawRuns] : k \in 0..MaxRerunRuns}

InitRerun ==
    /\ pc = "walkRead"
    /\ wfRaw \in RerunFiles
    /\ allRows = <<>> /\ start = 0 /\ windows = <<>> /\ attempted = <<>>
    /\ report = Null /\ clock = 0 /\ firstReport = Null
    /\ LabelIdle /\ CapIdle /\ PhaseIdle /\ EvalIdle
    /\ FitIdle /\ PredIdle /\ EdIdle /\ ParseIdle

NextRerun == PrepareRows \/ WindowStep \/ WriteReport \/ RunAgain

SpecRerun == InitRerun /\ [][NextRerun]_vars

----------------------------------------------------------------------------
(* Properties of the walk-forward script *)

\* The blocks of 50 positions that lie in the positions a .. b-1.
BlocksIn(a, b) == {k \in 1..(b \div 50) : 50 * (k - 1) >= a /\ 50 * k <= b}

Looping == pc \in {"walkLoop", "walkDone"}
Finished == pc = "walkDone"

\* The number of rows of a list that pass the training filter.
RECURSIVE UsableCount(_)
UsableCount(rs) ==
    IF rs = <<>> THEN 0
    ELSE (IF ~Head(rs).row._censored /\ Head(rs).row._regTarget # Null THEN Head(rs).n ELSE 0) + UsableCount(Tail(rs))

ReportedAttempts == SelectSeq(attempted, LAMBDA a : a.reported)
StripGeneratedAt(r) == [r EXCEPT !.generatedAt = 0]

C12_TestSlicesOverlap ==
    Looping =>
        \A i, j \in DOMAIN attempted :
            i < j =>
                /\ (attempted[i].test \cap attempted[j].test = {})
                       <=> (attempted[j].start - attempted[i].start >= testCount)
                /\ (j = i + 1) =>
                       /\ 50 * Cardinality(attempted[i].test \cap attempted[j].test) = testCount - stride
                       /\ testCount - stride = 100

\* two consecutive windows, both reported, with test positions in common,
\* and a later window whose test slice is disjoint from the first one's
C12_Witness ==
    /\ Finished
    /\ \E i, j \in DOMAIN attempted :
         /\ j = i + 1 /\ attempted[i].reported /\ attempted[j].reported
         /\ attempted[i].test \cap attempted[j].test # {}
    /\ \E i, j \in DOMAIN attempted :
         i < j /\ attempted[i].test \cap attempted[j].test = {}

\* C13: the loop attempts exactly the windows at offsets 0, stride,
\* 2*stride, ... that fit into the prepared rows, in that order; a window's
\* train, valid and test slices are its first trainCount, next validCount
\* and last testCount positions, pairwise disjoint; no train row is later
\* than a valid or test row of the window, no valid row later than a test row.
C13_WindowsAndSlices ==
    Looping =>
        /\ \A i \in DOMAIN attempted :
             /\ attempted[i].start = (i - 1) * stride
             /\ attempted[i].start + required <= CountRuns(allRows)
             /\ attempted[i].train = BlocksIn(attempted[i].start, attempted[i].start + trainCount)
             /\ attempted[i].valid = BlocksIn(attempted[i].start + trainCount, attempted[i].start + trainCount + validCount)
             /\ attempted[i].test = BlocksIn(attempted[i].start + trainCount + validCount, attempted[i].start + required)
             /\ attempted[i].train \cap attempted[i].valid = {}
             /\ attempted[i].train \cap attempted[i].test = {}
             /\ attempted[i].valid \cap attempted[i].test = {}
             /\ \A t \in attempted[i].trainTs : \A u \in attempted[i].validTs \cup attempted[i].testTs : t <= u
             /\ \A t \in attempted[i].validTs : \A u \in attempted[i].testTs : t <= u
        /\ start = Len(attempted) * stride
        /\ Finished => start + required > CountRuns(allRows)

\* the file is not in time order, two windows are attempted and one of them
\* has train rows strictly earlier than its test rows
C13_Witness ==
    /\ Finished
    /\ Len(attempted) >= 2
    /\ \E i \in 1..(Len(wfRaw) - 1) : DateGetTime(wfRaw[i].row.decisionTs)[1] > DateGetTime(wfRaw[i + 1].row.decisionTs)[1]
    /\ \E i \in DOMAIN attempted :
         \E t \in attempted[i].trainTs : \E u \in attempted[i].testTs : t < u

\* C14: a window whose filtered train, valid or test slice has fewer than
\* 200, 50 or 50 rows is skipped and is not in the report; every reported
\* window has trainRows >= 200, validRows >= 50, testRows >= 50; windowIndex
\* runs 1, 2, ..., windowCount in order of increasing start offset; with no
\* surviving window the run still writes a report, with windowCount 0 and
\* null aggregates.
C14_SmallWindowsSkipped ==
    Looping =>
        /\ \A i \in DOMAIN attempted :
             attempted[i].reported <=>
                 /\ UsableCount(SliceRuns(allRows, attempted[i].start, attempted[i].start + trainCount)) >= 200
                 /\ UsableCount(SliceRuns(allRows, attempted[i].start + trainCount, attempted[i].start + trainCount + validCount)) >= 50
                 /\ UsableCount(SliceRuns(allRows, attempted[i].start + trainCount + validCount, attempted[i].start + required)) >= 50
        /\ Len(windows) = Len(ReportedAttempts)
        /\ \A k \in DOMAIN windows :
             /\ windows[k].windowIndex = k
             /\ windows[k].trainRows >= 200
             /\ windows[k].validRows >= 50
             /\ windows[k].testRows >= 50
             /\ windows[k].startTs = RowAt(allRows, ReportedAttempts[k].start)._decisionTsMs
             /\ windows[k].trainRows = UsableCount(SliceRuns(allRows, ReportedAttempts[k].start, ReportedAttempts[k].start + trainCount))
        /\ Finished =>
             /\ report # Null
             /\ Val(report).windows = windows
             /\ Val(report).summary.windowCount = Len(windows)
             /\ windows = <<>> =>
                  /\ Val(report).summary.windowCount = 0
                  /\ Val(report).summary.meanTotalRelativePnlPerWindow = Null
                  /\ Val(report).summary.medianTotalRelativePnlPerWindow = Null
                  /\ Val(report).summary.profitableWindowRate = Null
                  /\ Val(report).summary.meanBuyRate = Null

\* the first window is skipped for want of validation rows, the second one
\* is reported as window 1 although the filter removed some of its rows
C14_Witness ==
    /\ Finished
    /\ Len(attempted) >= 2 /\ ~attempted[1].reported /\ attempted[2].reported
    /\ windows[1].windowIndex = 1
    /\ windows[1].validRows < validCount

----------------------------------------------------------------------------
(* Fitting: runWindow on two windows, and the single-split training script  *)
(* (src/scripts/train-robust-models.mjs) on the rows of the first.          *)

\* runWindow up to line 270: null for a skipped window, else what it fitted.
runWindowArtifacts(windowRows, nTrain, nValid, nTest) ==
    IF EnoughRows(TrainSlice(windowRows, nTrain), ValidSlice(windowRows, nTrain, nValid), TestSlice(windowRows, nTrain, nValid, nTest))
    THEN Some(WindowArtifacts(TrainSlice(windowRows, nTrain), ValidSlice(windowRows, nTrain, nValid), TestSlice(windowRows, nTrain, nValid, nTest)))
    ELSE Null

\* splitChronological(rows, 0.7, 0.15)
TrainEnd(n) == Max2(1, (n * 70) \div 100)
ValidEnd(n) == Max2(TrainEnd(n) + 1, (n * 85) \div 100)
SplitTrain(rs) == SliceRuns(rs, 0, TrainEnd(CountRuns(rs)))
SplitValid(rs) == SliceRuns(rs, TrainEnd(CountRuns(rs)), ValidEnd(CountRuns(rs)))
SplitTest(rs) == SliceRuns(rs, ValidEnd(CountRuns(rs)), CountRuns(rs))

\* .filter((r) => !r._censored && r._clsTarget !== null)
ClsUsableRun(run) == ~run.row._censored /\ run.row._clsTarget # Null
ClsUsableRows(rs) == Normalize(SelectSeq(rs, ClsUsableRun))

\* const schema = buildSchema(split.train);
\* const scaler = fitScaler(split.train, schema.numericKeys);
RobustSchemaRows(rs) == SplitTrain(rs)
RobustSchemaOf(rs) == Apply("buildSchema", <<Rows("split.train", RobustSchemaRows(rs))>>)
RobustScalerOf(rs) == Apply("fitScaler", <<Rows("split.train", RobustSchemaRows(rs)), RobustSchemaOf(rs)>>)
RobustVectorize(rowsIn, rs) == Apply("vectorize", <<rowsIn, RobustSchemaOf(rs), RobustScalerOf(rs)>>)

RobustRegTrainRows(rs) == UsableRows(SplitTrain(rs))
RobustClsTrainRows(rs) == ClsUsableRows(SplitTrain(rs))
RobustClsValidRows(rs) == ClsUsableRows(SplitValid(rs))

RobustRegGlobalW(rs) ==
    Apply("ridgeTrain", <<RobustVectorize(Rows("regTrainRows", RobustRegTrainRows(rs)), rs), Apply("regGlobalY", <<Rows("regTrainRows", RobustRegTrainRows(rs))>>)>>)
RobustClsGlobalW(rs) ==
    Apply("logisticTrain", <<RobustVectorize(Rows("clsTrainRows", RobustClsTrainRows(rs)), rs), Apply("clsGlobalY", <<Rows("clsTrainRows", RobustClsTrainRows(rs))>>)>>)
RobustPlatt(rs) ==
    Apply("fitPlatt", <<Apply("validLogits", <<Rows("clsValidRows", RobustClsValidRows(rs)), RobustSchemaOf(rs), RobustScalerOf(rs), RobustClsGlobalW(rs)>>), Apply("validY", <<Rows("clsValidRows", RobustClsValidRows(rs))>>)>>)

\* What the script has fitted when it reaches line 334; the segment models
\* (lines 300-317), fitted on the same filtered rows, are left out.
RobustArtifacts(rs) ==
    [schema |-> buildSchema(RobustSchemaRows(rs)),
     scaler |-> fitScaler(RobustSchemaRows(rs), numericKeys),
     schemaFit |-> RobustSchemaOf(rs),
     scalerFit |-> RobustScalerOf(rs),
     winsorLo |-> quantile(RegTargetRuns(RobustRegTrainRows(rs)), 1),
     winsorHi |-> quantile(RegTargetRuns(RobustRegTrainRows(rs)), 19),
     regGlobalW |-> RobustRegGlobalW(rs),
     clsGlobalW |-> RobustClsGlobalW(rs),
     platt |-> RobustPlatt(rs)]

\* ridgeTrain and logisticTrain read X[0].length: with no row to train on
\* the script ends in a TypeError before anything is fitted.
trainRobust(rs) ==
    IF RobustRegTrainRows(rs) = <<>> \/ RobustClsTrainRows(rs) = <<>> THEN Null
    ELSE Some(RobustArtifacts(rs))

\* The three slices of a 1950-row window as the dataset holds them, each a
\* few stretches of equal rows in time order.
TrainStretches ==
    { << [row |-> KindA(10), n |-> 1400] >>,
      << [row |-> KindA(10), n |-> 700], [row |-> KindB(11), n |-> 700] >>,
      << [row |-> KindA(10), n |-> 700], [row |-> KindAWin(11), n |-> 700] >>,
      << [row |-> KindA(10), n |-> 650], [row |-> KindAWin(11), n |-> 650], [row |-> KindCensored(12), n |-> 50], [row |-> KindB(13), n |-> 50] >>,
      << [row |-> KindCensored(10), n |-> 1250], [row |-> KindA(11), n |-> 150] >> }
ValidStretches ==
    { << [row |-> KindB(20), n |-> 300] >>,
      << [row |-> KindA(20), n |-> 150], [row |-> KindCensored(21), n |-> 150] >> }
TestStretches ==
    { << [row |-> KindA(30), n |-> 250] >>,
      << [row |-> KindB(30), n |-> 250] >>,
      << [row |-> KindCensored(30), n |-> 250] >> }

WindowInputs == {prepareRows(t \o v \o u) : t \in TrainStretches, v \in ValidStretches, u \in TestStretches}

InitFit ==
    /\ pc = "fit"
    /\ fitRows \in WindowInputs
    /\ fitRowsB \in WindowInputs
    /\ fitOut = [a |-> Null, b |-> Null, robust |-> Null]
    /\ LabelIdle /\ CapIdle /\ PhaseIdle /\ EvalIdle
    /\ WalkIdle /\ PredIdle /\ EdIdle /\ ParseIdle

RunWindowA ==
    /\ pc = "fit"
    /\ fitOut' = [fitOut EXCEPT !.a = runWindowArtifacts(fitRows, trainCount, validCount, testCount)]
    /\ pc' = "fitA"
    /\ UNCHANGED <<fitRows, fitRowsB>>
    /\ UNCHANGED <<labelVars, capVars, phaseVars, evalVars, walkVars, predVars, edVars, parseVars>>

RunWindowB ==
    /\ pc = "fitA"
    /\ fitOut' = [fitOut EXCEPT !.b = runWindowArtifacts(fitRowsB, trainCount, validCount, testCount)]
    /\ pc' = "fitB"
    /\ UNCHANGED <<fitRows, fitRowsB>>
    /\ UNCHANGED <<labelVars, capVars, phaseVars, evalVars, walkVars, predVars, edVars, parseVars>>

TrainRobust ==
    /\ pc = "fitB"
    /\ fitOut' = [fitOut EXCEPT !.robust = trainRobust(fitRows)]
    /\ pc' = "fitDone"
    /\ UNCHANGED <<fitRows, fitRowsB>>
    /\ UNCHANGED <<labelVars, capVars, phaseVars, evalVars, walkVars, predVars, edVars, parseVars>>

NextFit == RunWindowA \/ RunWindowB \/ TrainRobust

SpecFit == InitFit /\ [][NextFit]_vars

----------------------------------------------------------------------------
(* Properties of the fits *)

FitsDone == pc \in {"fitB", "fitDone"}
TrainA == TrainSlice(fitRows, trainCount)
TrainB == TrainSlice(fitRowsB, trainCount)
ValidA == ValidSlice(fitRows, trainCount, validCount)
ValidB == ValidSlice(fitRowsB, trainCount, validCount)
TestA == TestSlice(fitRows, trainCount, validCount, testCount)
TestB == TestSlice(fitRowsB, trainCount, validCount, testCount)

\* The fitted values among the artifacts of a window.
WindowFits(art) ==
    {art.schemaFit, art.scalerFit, art.regGlobalW, art.clsGlobalW, art.platt, art.threshold}
        \cup {art.regSegments[seg].w : seg \in DOMAIN art.regSegments}
        \cup {art.clsSegments[seg].w : seg \in DOMAIN art.clsSegments}
RobustFits(art) == {art.schemaFit, art.scalerFit, art.regGlobalW, art.clsGlobalW, art.platt}

\* The slices a fitted value was computed from.
RolesOf(fit) == {x[1] : x \in fit.from}
HasCensoredRow(fit) == \E x \in fit.from : \E i \in DOMAIN x[2] : x[2][i].row._censored

\* C15: the artifacts of a window (vocabularies, scaler, global and segment
\* weights, Platt parameters, tuned threshold) are a function of its train
\* and valid slices only: two windows with the same train and valid rows
\* have the same artifacts whatever their test rows, and no fitted value is
\* computed from test rows.
C15_ArtifactsFromTrainAndValidOnly ==
    FitsDone =>
        /\ (fitOut.a # Null /\ fitOut.b # Null /\ TrainA = TrainB /\ ValidA = ValidB)
               => fitOut.a = fitOut.b
        /\ fitOut.a # Null =>
               \A fit \in WindowFits(Val(fitOut.a)) : "test" \notin RolesOf(fit)
        /\ fitOut.a # Null =>
               /\ "valid" \in RolesOf(Val(fitOut.a).platt)
               /\ "valid" \in RolesOf(Val(fitOut.a).threshold)

\* two fitted windows with the same train and valid rows, different test rows
C15_Witness ==
    /\ FitsDone
    /\ fitOut.a # Null /\ fitOut.b # Null
    /\ TrainA = TrainB /\ ValidA = ValidB /\ TestA # TestB
    /\ DOMAIN Val(fitOut.a).clsSegments # {}

\* The values a slice holds for one vocabulary.
SlicePhases(rs) == {rs[i].row._phaseNow : i \in DOMAIN rs}
SliceDomains(rs) == {rs[i].row._taxonomyDomain : i \in DOMAIN rs}
SliceLeg1Venues(rs) == {IF rs[i].row.leg1Venue = Null THEN "unknown" ELSE rs[i].row.leg1Venue[1] : i \in DOMAIN rs}
SliceLeg2Venues(rs) == {IF rs[i].row.leg2Venue = Null THEN "unknown" ELSE rs[i].row.leg2Venue[1] : i \in DOMAIN rs}
SliceLeg1Intents(rs) == {IF rs[i].row.leg1OrderIntent = Null THEN "unknown" ELSE rs[i].row.leg1OrderIntent[1] : i \in DOMAIN rs}
SliceLeg2Intents(rs) == {IF rs[i].row.leg2OrderIntent = Null THEN "unknown" ELSE rs[i].row.leg2OrderIntent[1] : i \in DOMAIN rs}

\* buckets is exactly the sorted set of the values: strictly ascending (so
\* without duplicate), every element a value, every value an element.
IsSortedSetOf(buckets, values) ==
    /\ \A i, j \in DOMAIN buckets : i < j => CodeUnitRank(buckets[i]) < CodeUnitRank(buckets[j])
    /\ {buckets[i] : i \in DOMAIN buckets} = values

\* Sum over the rows of a slice of the p-th power of the value of a key,
\* rows without a value left out.
PowerOf(v, p) == IF p = 0 THEN 1 ELSE IF p = 1 THEN v ELSE v * v
RECURSIVE SliceMoment(_, _, _, _)
SliceMoment(rs, key, p, i) ==
    IF i = 0 THEN 0
    ELSE SliceMoment(rs, key, p, i - 1)
         + (IF NumericOf(rs[i].row, key) = Null THEN 0 ELSE rs[i].n * PowerOf(NumericOf(rs[i].row, key)[1], p))

\* count, sum and sum of squares of a key over a slice
SliceN(rs, k) == SliceMoment(rs, k, 0, Len(rs))
SliceS(rs, k) == SliceMoment(rs, k, 1, Len(rs))
SliceQ(rs, k) == SliceMoment(rs, k, 2, Len(rs))

\* mean S/N and variance (N*Q - S*S)/(N*N) of the slice's values; mean 0
\* and deviation 1 without values, deviation 1 for a constant key
ScalerIsOf(scaler, rs) ==
    \A k \in DOMAIN scaler :
        /\ SliceN(rs, k) = 0 => scaler[k] = [mean |-> <<0, 1>>, std |-> [sqrtOf |-> <<1, 1>>]]
        /\ SliceN(rs, k) > 0 =>
             /\ scaler[k].mean = <<SliceS(rs, k), SliceN(rs, k)>>
             /\ scaler[k].std.sqrtOf =
                    IF SliceN(rs, k) * SliceQ(rs, k) > SliceS(rs, k) * SliceS(rs, k)
                    THEN <<SliceN(rs, k) * SliceQ(rs, k) - SliceS(rs, k) * SliceS(rs, k), SliceN(rs, k) * SliceN(rs, k)>>
                    ELSE <<1, 1>>

SchemaIsOf(schema, rs) ==
    /\ IsSortedSetOf(schema.phaseBuckets, SlicePhases(rs))
    /\ IsSortedSetOf(schema.domainBuckets, SliceDomains(rs))
    /\ IsSortedSetOf(schema.leg1VenueBuckets, SliceLeg1Venues(rs))
    /\ IsSortedSetOf(schema.leg2VenueBuckets, SliceLeg2Venues(rs))
    /\ IsSortedSetOf(schema.leg1IntentBuckets, SliceLeg1Intents(rs))
    /\ IsSortedSetOf(schema.leg2IntentBuckets, SliceLeg2Intents(rs))

\* C16: each vocabulary of a schema is exactly the sorted set of distinct
\* values of the slice it was built from (a missing venue or intent counted
\* as "unknown"), and the scaler's means and standard deviations are those
\* of that slice's rows: in runWindow the slice is the filtered train slice,
\* in the training script it is split.train.
C16_VocabulariesAndScalerOfTheSlice ==
    /\ (FitsDone /\ fitOut.a # Null) =>
           /\ SchemaIsOf(Val(fitOut.a).schema, TrainA)
           /\ ScalerIsOf(Val(fitOut.a).scaler, TrainA)
    /\ (pc = "fitDone" /\ fitOut.robust # Null) =>
           /\ SchemaIsOf(Val(fitOut.robust).schema, SplitTrain(fitRows))
           /\ ScalerIsOf(Val(fitOut.robust).scaler, SplitTrain(fitRows))

\* a fitted window whose train slice holds a value in two stretches and a
\* row without venue, and whose rows hold a venue the train slice does not
C16_Witness ==
    /\ pc = "fitDone" /\ fitOut.a # Null /\ fitOut.robust # Null
    /\ Len(Val(fitOut.a).schema.leg1VenueBuckets) < Len(TrainA)
    /\ "unknown" \in SliceLeg1Venues(TrainA)
    /\ SliceLeg1Venues(fitRows) \ SliceLeg1Venues(TrainA) # {}
    /\ Val(fitOut.a).scaler["expectedEdgeAtDecision"].std.sqrtOf # <<1, 1>>

WalkForwardFitsNoCensoredRow ==
    (FitsDone /\ fitOut.a # Null) => \A fit \in WindowFits(Val(fitOut.a)) : ~HasCensoredRow(fit)
RobustFitsNoCensoredRow ==
    (pc = "fitDone" /\ fitOut.robust # Null) => \A fit \in RobustFits(Val(fitOut.robust)) : ~HasCensoredRow(fit)

\* C18: a censored row is never among the rows from which a training run
\* fits anything (vocabularies, scaler statistics, winsorization bounds,
\* weights, Platt parameters, threshold), in the walk-forward path and in
\* the single-split path.
C18_CensoredRowsNeverFitted == WalkForwardFitsNoCensoredRow /\ RobustFitsNoCensoredRow

----------------------------------------------------------------------------
(* Regression prediction: predictRegRow (train-robust-models.mjs) and       *)
(* predictReg (backtest-robust-models.mjs).  Bounds and predictions are in  *)
(* twentieths (see quantile).  The dot product of the weights and the       *)
(* feature vector is an input: it can be any finite number.                 *)

MaxPrediction == 12

\* The part of the artifacts predictReg reads: the global bounds and the
\* bounds of each segment model.
BoundsOf(seg) == [lo |-> seg.lo, hi |-> seg.hi]
RegModel(art) ==
    [winsorLo |-> art.winsorLo,
     winsorHi |-> art.winsorHi,
     regSegments |-> [k \in DOMAIN art.regSegments |-> BoundsOf(art.regSegments[k])]]

\* const seg = regSegments[row._segmentKey];
\* if (seg) return clip(dot(seg.weights, x), seg.lo, seg.hi);
\* return clip(dot(regGlobalW, x), winsorLo, winsorHi);
predictReg(model, segmentKey, dotValue) ==
    IF segmentKey \in DOMAIN model.regSegments
    THEN clip(dotValue, model.regSegments[segmentKey].lo, model.regSegments[segmentKey].hi)
    ELSE clip(dotValue, model.winsorLo, model.winsorHi)

FittedWindows == {w \in WindowInputs : runWindowArtifacts(w, trainCount, validCount, testCount) # Null}
RegModels == {RegModel(Val(runWindowArtifacts(w, trainCount, validCount, testCount))) : w \in FittedWindows}
SegmentKeyValues == {<<"finance", "T_24h_6h">>, <<"other", "T_1h_close">>, <<"politics", "T_3d_1d">>}
DotValues == {QuantileUnit * k : k \in (0 - MaxPrediction)..MaxPrediction} \cup {k : k \in (0 - MaxPrediction)..MaxPrediction}

InitPredict ==
    /\ pc = "predict"
    /\ prIn \in [model : RegModels, segmentKey : SegmentKeyValues, dot : DotValues]
    /\ prOut = Null
    /\ vecIn = Null /\ vecOut = Null
    /\ LabelIdle /\ CapIdle /\ PhaseIdle /\ EvalIdle
    /\ WalkIdle /\ FitIdle /\ EdIdle /\ ParseIdle

CallPredictReg ==
    /\ pc = "predict"
    /\ prOut' = Some(predictReg(prIn.model, prIn.segmentKey, prIn.dot))
    /\ pc' = "predictDone"
    /\ UNCHANGED <<prIn, vecIn, vecOut>>
    /\ UNCHANGED <<labelVars, capVars, phaseVars, evalVars, walkVars, fitVars, edVars, parseVars>>

NextPredict == CallPredictReg

SpecPredict == InitPredict /\ [][NextPredict]_vars

HasSegmentModel == prIn.segmentKey \in DOMAIN prIn.model.regSegments

----------------------------------------------------------------------------
(* Decision evaluation on rows whose target may be null: evaluateDecision   *)
(* of the baseline backtest (src/unnamed/part_002) and evaluate of the      *)
(* robust backtest.  A row is [_regTarget |-> Null or Some(number)].        *)

MaxEdRows == 3

\* rewards: null for a null target, else 0 when buying now, delta when waiting
EdRewardsNullAsZero(edrows, decisions) ==
    [i \in DOMAIN edrows |-> IF edrows[i]._regTarget = Null \/ decisions[i] = "buy_now" THEN Some(0) ELSE edrows[i]._regTarget]
EdRewards(edrows, decisions) ==
    [i \in DOMAIN edrows |->
        IF edrows[i]._regTarget = Null THEN Null
        ELSE IF decisions[i] = "buy_now" THEN Some(0) ELSE edrows[i]._regTarget]

\* Variant: the oracle always waits.
EdOracleAlwaysWaits(edrows) == [i \in DOMAIN edrows |-> edrows[i]._regTarget]

\* oracleRewards: null for a null target, else Math.max(0, delta)
EdOracleRewards(edrows) ==
    [i \in DOMAIN edrows |->
        IF edrows[i]._regTarget = Null THEN Null ELSE Some(Max2(0, Val(edrows[i]._regTarget)))]

\* values.filter((x) => x !== null)
NotNull(v) == v # Null
NonNullValues(values) == [i \in DOMAIN SelectSeq(values, NotNull) |-> Val(SelectSeq(values, NotNull)[i])]

evaluateDecision(edrows, probs, t) ==
    [threshold |-> t,
     rows |-> Len(edrows),
     buyRate |-> mean(Indicator(Decisions(probs, t), "buy_now")),
     waitRate |-> mean(Indicator(Decisions(probs, t), "wait")),
     meanRelativePnlVsAlwaysBuyNow |-> mean(NonNullValues(EdRewards(edrows, Decisions(probs, t)))),
     totalRelativePnlVsAlwaysBuyNow |-> SeqSum(NonNullValues(EdRewards(edrows, Decisions(probs, t)))),
     meanOracleRelativePnlVsAlwaysBuyNow |-> mean(NonNullValues(EdOracleRewards(edrows))),
     totalOracleRelativePnlVsAlwaysBuyNow |-> SeqSum(NonNullValues(EdOracleRewards(edrows)))]

\* evaluate reads r._regTarget only inside sums and Math.max: there null
\* converts to the number 0 (0 + null is 0, Math.max(0, null) is 0).
ToNumberTargets(edrows) ==
    [i \in DOMAIN edrows |-> [_regTarget |-> IF edrows[i]._regTarget = Null THEN 0 ELSE Val(edrows[i]._regTarget)]]

\* const thresholds = [0.4, 0.5, 0.6, 0.7]
thresholds == <<40, 50, 60, 70>>

EdTargets == {Null, Some(-5), Some(10)}
EdProbabilities == {30, 50, 90}

InitEd ==
    /\ pc = "ed"
    /\ \E n \in 0..MaxEdRows :
          /\ edRows \in [1..n -> [_regTarget : EdTargets]]
          /\ edProbs \in [1..n -> EdProbabilities]
    /\ edOut = Null
    /\ LabelIdle /\ CapIdle /\ PhaseIdle /\ EvalIdle
    /\ WalkIdle /\ FitIdle /\ PredIdle /\ ParseIdle

\* thresholds.map((t) => evaluateDecision(testRows, testProbs, t)), one t
CallEvaluateDecision ==
    /\ pc = "ed"
    /\ \E k \in DOMAIN thresholds :
         edOut' = Some([decision |-> evaluateDecision(edRows, edProbs, thresholds[k]), robust |-> Null, decisionUsed |-> Null, robustUsed |-> Null])
    /\ pc' = "edDecision"
    /\ UNCHANGED <<edRows, edProbs>>
    /\ UNCHANGED <<labelVars, capVars, phaseVars, evalVars, walkVars, fitVars, predVars, parseVars>>

\* evaluate(rows, probs, threshold) on the same rows at the same threshold
CallEvaluate ==
    /\ pc = "edDecision"
    /\ edOut' = Some([Val(edOut) EXCEPT !.robust = Some(evaluate(ToNumberTargets(edRows), edProbs, Val(edOut).decision.threshold))])
    /\ pc' = "edDone"
    /\ UNCHANGED <<edRows, edProbs>>
    /\ UNCHANGED <<labelVars, capVars, phaseVars, evalVars, walkVars, fitVars, predVars, parseVars>>

\* split.test.filter((r) => !r._censored && r._regTarget !== null) of both
\* backtests, for rows that are not censored; probabilities are computed
\* from the filtered rows, so they are filtered alike
HasTarget(row) == row._regTarget # Null
RECURSIVE KeepWithTarget(_, _, _)
KeepWithTarget(edrows, values, k) ==
    IF k = 0 THEN <<>>
    ELSE IF edrows[k]._regTarget = Null THEN KeepWithTarget(edrows, values, k - 1)
    ELSE Append(KeepWithTarget(edrows, values, k - 1), values[k])
testRows(edrows) == SelectSeq(edrows, HasTarget)
testProbs(edrows, probs) == KeepWithTarget(edrows, probs, Len(edrows))

\* the two backtest scripts as they run: filter, then evaluate
BacktestFiltered ==
    /\ pc = "edDone"
    /\ edOut' = Some([Val(edOut) EXCEPT
                        !.decisionUsed = Some(evaluateDecision(testRows(edRows), testProbs(edRows, edProbs), Val(edOut).decision.threshold)),
                        !.robustUsed = Some(evaluate(ToNumberTargets(testRows(edRows)), testProbs(edRows, edProbs), Val(edOut).decision.threshold))])
    /\ pc' = "edBacktest"
    /\ UNCHANGED <<edRows, edProbs>>
    /\ UNCHANGED <<labelVars, capVars, phaseVars, evalVars, walkVars, fitVars, predVars, parseVars>>

NextEd == CallEvaluateDecision \/ CallEvaluate \/ BacktestFiltered

SpecEd == InitEd /\ [][NextEd]_vars

\* Property definitions
EdT == Val(edOut).decision.threshold
WithTarget == {i \in DOMAIN edRows : edRows[i]._regTarget # Null}
Buying == {i \in DOMAIN edRows : edProbs[i] >= EdT}
RECURSIVE SumOfTargets(_)
SumOfTargets(S) ==
    IF S = {} THEN 0
    ELSE LET i == CHOOSE j \in S : TRUE IN edRows[i]._regTarget[1] + SumOfTargets(S \ {i})
PositiveTargets == {i \in WithTarget : edRows[i]._regTarget[1] > 0}

\* the keys both functions return
Figures(o) ==
    [threshold |-> o.threshold, rows |-> o.rows, buyRate |-> o.buyRate, waitRate |-> o.waitRate,
     meanRelativePnlVsAlwaysBuyNow |-> o.meanRelativePnlVsAlwaysBuyNow,
     totalRelativePnlVsAlwaysBuyNow |-> o.totalRelativePnlVsAlwaysBuyNow,
     meanOracleRelativePnlVsAlwaysBuyNow |-> o.meanOracleRelativePnlVsAlwaysBuyNow,
     totalOracleRelativePnlVsAlwaysBuyNow |-> o.totalOracleRelativePnlVsAlwaysBuyNow]

\* The figures of a result in which rows without target count in the row
\* total and the rates but in no sum and no denominator of a mean.
ExcludesNullTargets(o) ==
    /\ o.rows = Len(edRows)
    /\ edRows # <<>> =>
         /\ o.buyRate = Some(<<Cardinality(Buying), Len(edRows)>>)
         /\ o.waitRate = Some(<<Len(edRows) - Cardinality(Buying), Len(edRows)>>)
    /\ o.totalRelativePnlVsAlwaysBuyNow = SumOfTargets(WithTarget \ Buying)
    /\ o.totalOracleRelativePnlVsAlwaysBuyNow = SumOfTargets(PositiveTargets)
    /\ WithTarget = {} =>
         /\ o.meanRelativePnlVsAlwaysBuyNow = Null
         /\ o.meanOracleRelativePnlVsAlwaysBuyNow = Null
    /\ WithTarget # {} =>
         /\ o.meanRelativePnlVsAlwaysBuyNow = Some(<<SumOfTargets(WithTarget \ Buying), Cardinality(WithTarget)>>)
         /\ o.meanOracleRelativePnlVsAlwaysBuyNow = Some(<<SumOfTargets(PositiveTargets), Cardinality(WithTarget)>>)

\* C19 as stated: in decision evaluation, by evaluateDecision and by
\* evaluate, a row with a null target is counted in the row total and the
\* buy/wait rates but is in neither numerator nor denominator of the mean
\* relative PnL and of the oracle mean.
C19_NullTargetsExcludedByBoth ==
    /\ pc \in {"edDecision", "edDone", "edBacktest"} => ExcludesNullTargets(Val(edOut).decision)
    /\ pc \in {"edDone", "edBacktest"} => ExcludesNullTargets(Val(Val(edOut).robust))
    /\ pc = "edBacktest" => ExcludesNullTargets(Val(Val(edOut).robustUsed))

\* C19 (amended): evaluateDecision counts a row with a null target in the
\* row total and the rates and keeps it out of numerator and denominator of
\* both means; evaluate has no such case: on rows that all have a target it
\* returns the same figures as evaluateDecision, and a row with a null
\* target counts in its means as a reward of 0 (denominator: all rows).
\* Both backtests filter such rows out before evaluating, so in their
\* reports these rows are in no evaluated row total and no rate at all.
C19_NullTargetsExcludedByEvaluateDecision ==
    /\ pc \in {"edDecision", "edDone", "edBacktest"} => ExcludesNullTargets(Val(edOut).decision)
    /\ pc = "edBacktest" =>
         /\ Val(Val(edOut).robustUsed).rows = Cardinality(WithTarget)
         /\ Val(Val(edOut).decisionUsed).rows = Cardinality(WithTarget)
         /\ Figures(Val(Val(edOut).robustUsed)) = Figures(Val(Val(edOut).decisionUsed))
         /\ WithTarget # {} => Val(Val(edOut).robustUsed).buyRate = Some(<<Cardinality(Buying \cap WithTarget), Cardinality(WithTarget)>>)
    /\ pc \in {"edDone", "edBacktest"} =>
         /\ WithTarget = DOMAIN edRows => Figures(Val(Val(edOut).robust)) = Figures(Val(edOut).decision)
         /\ edRows # <<>> =>
              /\ Val(Val(edOut).robust).meanRelativePnlVsAlwaysBuyNow = Some(<<SumOfTargets(WithTarget \ Buying), Len(edRows)>>)
              /\ Val(Val(edOut).robust).meanOracleRelativePnlVsAlwaysBuyNow = Some(<<SumOfTargets(PositiveTargets), Len(edRows)>>)

\* a waiting row without target next to a waiting row with one
C19_Witness ==
    /\ pc = "edBacktest"
    /\ \E i \in DOMAIN edRows : edRows[i]._regTarget = Null /\ i \notin Buying
    /\ \E i \in WithTarget : i \notin Buying
    /\ Val(edOut).decision.meanRelativePnlVsAlwaysBuyNow # Val(Val(edOut).robust).meanRelativePnlVsAlwaysBuyNow

----------------------------------------------------------------------------
(* Reading the input dataset: every script starts with                      *)
(*   raw.split("\n").map(line => line.trim()).filter(Boolean)               *)
(*      .map(line => JSON.parse(line))                                      *)
(* and writes its files only at its end.  A text is a sequence of           *)
(* characters over a newline, a space, the two braces and a digit.          *)

MaxRawLen == 5

NL == "\n"
SP == " "
Characters == {NL, SP, "{", "}", "1"}

\* raw.split("\n"): the stretches between newlines, empty ones included
RECURSIVE split(_)
split(text) ==
    IF \A i \in DOMAIN text : text[i] # NL THEN <<text>>
    ELSE <<SubSeq(text, 1, (CHOOSE k \in DOMAIN text : text[k] = NL /\ \A j \in 1..(k - 1) : text[j] # NL) - 1)>>
         \o split(SubSeq(text, (CHOOSE k \in DOMAIN text : text[k] = NL /\ \A j \in 1..(k - 1) : text[j] # NL) + 1, Len(text)))

\* line.trim(): white space removed at both ends
RECURSIVE trimStart(_)
trimStart(line) == IF line # <<>> /\ Head(line) = SP THEN trimStart(Tail(line)) ELSE line
RECURSIVE trimEnd(_)
trimEnd(line) == IF line # <<>> /\ line[Len(line)] = SP THEN trimEnd(SubSeq(line, 1, Len(line) - 1)) ELSE line
trim(line) == trimEnd(trimStart(line))

\* Boolean(line): false for the empty string only
BooleanKeepingEmpty(line) == TRUE
Boolean(line) == line # <<>>

\* JSON.parse(line) on these characters: white space around the value is
\* allowed, the value is a number (digits) or an object without members
\* (braces with white space between); anything else is a SyntaxError.
JsonValue(line) == trimEnd(trimStart(line))
IsNumberText(value) == value # <<>> /\ \A i \in DOMAIN value : value[i] = "1"
IsEmptyObjectText(value) ==
    /\ Len(value) >= 2
    /\ value[1] = "{"
    /\ value[Len(value)] = "}"
    /\ \A i \in 2..(Len(value) - 1) : value[i] = SP
ThrowsSyntaxError(line) == ~(IsNumberText(JsonValue(line)) \/ IsEmptyObjectText(JsonValue(line)))
JSONparse(line) ==
    IF IsNumberText(JsonValue(line)) THEN [type |-> "number", digits |-> Len(JsonValue(line))]
    ELSE [type |-> "object", digits |-> 0]

\* the lines handed to JSON.parse
TrimEach(textLines) == [i \in DOMAIN textLines |-> trim(textLines[i])]
LinesToParse(text) == SelectSeq(TrimEach(split(text)), Boolean)

Texts == UNION {[1..n -> Characters] : n \in 0..MaxRawLen}

InitParse ==
    /\ pc \in {"readLabels", "readWalk"}
    /\ rawText \in Texts
    /\ parsedRows = <<>>
    /\ outputs = {}
    /\ LabelIdle /\ CapIdle /\ PhaseIdle /\ EvalIdle
    /\ WalkIdle /\ FitIdle /\ PredIdle /\ EdIdle

\* The read-and-parse statement.  A SyntaxError thrown inside map is caught
\* nowhere: the module's top-level await rejects and the process ends.
ParseRows ==
    /\ pc \in {"readLabels", "readWalk"}
    /\ IF \E i \in DOMAIN LinesToParse(rawText) : ThrowsSyntaxError(LinesToParse(rawText)[i])
       THEN /\ pc' = "aborted"
            /\ parsedRows' = parsedRows
       ELSE /\ pc' = (IF pc = "readLabels" THEN "labelsParsed" ELSE "walkParsed")
            /\ parsedRows' = [i \in DOMAIN LinesToParse(rawText) |-> JSONparse(LinesToParse(rawText)[i])]
    /\ UNCHANGED <<rawText, outputs>>
    /\ UNCHANGED <<labelVars, capVars, phaseVars, evalVars, walkVars, fitVars, predVars, edVars>>

\* generate-capacity-labels: group, label, then write the labeled dataset
WriteLabeledDataset ==
    /\ pc = "labelsParsed"
    /\ outputs' = outputs \cup {"labeledDataset"}
    /\ pc' = "labelsWritten"
    /\ UNCHANGED <<rawText, parsedRows>>
    /\ UNCHANGED <<labelVars, capVars, phaseVars, evalVars, walkVars, fitVars, predVars, edVars>>

\* generate-capacity-labels: build the summary, then write it
WriteSummary ==
    /\ pc = "labelsWritten"
    /\ outputs' = outputs \cup {"summary"}
    /\ pc' = "parseDone"
    /\ UNCHANGED <<rawText, parsedRows>>
    /\ UNCHANGED <<labelVars, capVars, phaseVars, evalVars, walkVars, fitVars, predVars, edVars>>

\* walk-forward backtest: prepare, run the windows, then write the report
WriteWalkReport ==
    /\ pc = "walkParsed"
    /\ outputs' = outputs \cup {"report"}
    /\ pc' = "parseDone"
    /\ UNCHANGED <<rawText, parsedRows>>
    /\ UNCHANGED <<labelVars, capVars, phaseVars, evalVars, walkVars, fitVars, predVars, edVars>>

NextParse == ParseRows \/ WriteLabeledDataset \/ WriteSummary \/ WriteWalkReport

SpecParse == InitParse /\ [][NextParse]_vars

\* Property definitions, stated on the text itself
LineStarts == {1} \cup {k + 1 : k \in {j \in DOMAIN rawText : rawText[j] = NL}}
LineEnd(a) == IF \E k \in a..Len(rawText) : rawText[k] = NL
              THEN (CHOOSE k \in a..Len(rawText) : rawText[k] = NL /\ \A j \in a..(k - 1) : rawText[j] # NL) - 1
              ELSE Len(rawText)
TextLines == {SubSeq(rawText, a, LineEnd(a)) : a \in LineStarts}
Blank(line) == \A i \in DOMAIN line : line[i] = SP
Inner(line) == {i \in DOMAIN line : line[i] # SP}
WellFormed(line) ==
    \/ Inner(line) # {} /\ \A i \in DOMAIN line : (\E a, b \in Inner(line) : a <= i /\ i <= b) => line[i] = "1"
    \/ \E a, b \in DOMAIN line :
          /\ a < b /\ line[a] = "{" /\ line[b] = "}"
          /\ \A i \in DOMAIN line \ {a, b} : line[i] = SP
Malformed(line) == ~Blank(line) /\ ~WellFormed(line)
HasRead == pc \notin {"readLabels", "readWalk"}

\* C20: if a non-blank line of the input is not parseable as JSON the run
\* aborts before any output file is written; blank lines, a trailing one
\* included, are ignored: a run aborts at parsing only for a malformed
\* non-blank line and otherwise parses one row for each non-blank line and
\* goes on to write its files.
C20_MalformedLineAbortsBeforeOutput ==
    /\ (HasRead /\ \E line \in TextLines : Malformed(line)) => (pc = "aborted" /\ outputs = {} /\ parsedRows = <<>>)
    /\ pc = "aborted" => (\E line \in TextLines : Malformed(line))
    /\ (HasRead /\ pc # "aborted") => Len(parsedRows) = Cardinality({a \in LineStarts : ~Blank(SubSeq(rawText, a, LineEnd(a)))})
    /\ pc = "parseDone" => outputs \in {{"labeledDataset", "summary"}, {"report"}}

\* a text with a parseable line, a blank line and a malformed line: aborted
C20_Witness ==
    /\ pc = "aborted"
    /\ outputs = {}
    /\ \E line \in TextLines : ~Blank(line) /\ WellFormed(line)
    /\ \E a \in LineStarts : a > 1 /\ Blank(SubSeq(rawText, a, LineEnd(a)))
    /\ \E line \in TextLines : Malformed(line)

----------------------------------------------------------------------------
(* Admission of raw rows into the series.  The labeling script groups the   *)
(* rows of whatever JSON lines its input file holds: a field may be absent, *)
(* null, a number or any string.                                            *)

MaxAdmitRows == 2

AdmitKeys == {JsNull, JsStr("A")}
AdmitTimestamps == {JsNull, JsStr("garbage"), JsDate(0), JsDate(15)}
AdmitEdges == {JsNull, JsUndef, JsStr("abc"), JsNum(2)}

\* a parsed line: the three fields the grouping loop reads, the others fixed
RawRow(key, ts, edge) ==
    [dedupeKey |-> key,
     decisionTs |-> ts,
     expectedEdgeAtDecision |-> edge,
     targetContractsAtDecision |-> JsNum(100),
     minKernelContractsAtDecision |-> JsNull,
     leg1ExpiresAt |-> JsNull,
     leg2ExpiresAt |-> JsNull,
     oppLeg1ExpiresAt |-> JsNull,
     oppLeg2ExpiresAt |-> JsNull]

\* One more parsed line of the input file, whatever it holds.
ReadAnyRow ==
    /\ pc = "read"
    /\ Len(rows) < MaxAdmitRows
    /\ \E key \in AdmitKeys, ts \in AdmitTimestamps, edge \in AdmitEdges :
          rows' = Append(rows, RawRow(key, ts, edge))
    /\ UNCHANGED <<pc, grouped, gi, ri, labeledRows, written, capVars, phaseVars, evalVars,
                 walkVars, fitVars, predVars, edVars, parseVars>>

\* Reading and the grouping loop; the series are then handed to the sort
\* and to label synthesis as they are.
NextAdmit == ReadAnyRow \/ GroupRows

SpecAdmit == Init /\ [][NextAdmit]_vars

AdmittedRecords == {grouped[g].seq[k] : <<g, k>> \in {p \in (DOMAIN grouped) \X (1..MaxAdmitRows + 1) : p[2] <= Len(grouped[p[1]].seq)}}
HasParseableTs(row) == DateGetTime(row.decisionTs) # Null
HasNumericEdge(row) == safeNum(row.expectedEdgeAtDecision) # Null
HasKey(row) == row.dedupeKey.t = "string" /\ row.dedupeKey.s # ""

\* C21: a raw row is admitted into a series only if it has a dedupeKey, a
\* non-null decisionTs that parses to a timestamp and a non-null
\* expectedEdgeAtDecision; every record handed to label synthesis has a
\* parseable timestamp and a non-null numeric edge.
C21_AdmittedRowsHaveTimestampAndEdge ==
    pc = "sort" =>
        \A row \in AdmittedRecords : HasKey(row) /\ HasParseableTs(row) /\ HasNumericEdge(row)

\* What the grouping loop does guarantee of an admitted record: a non-empty
\* key, a decisionTs that is neither null nor empty, an edge that is not null.
AdmittedRowsAreKeyedAndNonNull ==
    pc = "sort" =>
        \A row \in AdmittedRecords :
            /\ HasKey(row)
            /\ row.decisionTs.t \notin {"null", "undefined"}
            /\ row.expectedEdgeAtDecision.t # "null"

----------------------------------------------------------------------------
(* Feature vectors: oneHotValue and buildVector, the same in the            *)
(* walk-forward script and in train-robust-models.mjs.  A standardized      *)
(* number (v - mean) / std is held as the record of its three parts.        *)

\* const out = new Array(buckets.length).fill(0);
\* const idx = buckets.indexOf(value); if (idx >= 0) out[idx] = 1;
oneHotValueUnknownFallback(value, buckets) ==
    [i \in DOMAIN buckets |-> IF buckets[i] = value \/ (buckets[i] = "unknown" /\ \A j \in DOMAIN buckets : buckets[j] # value) THEN 1 ELSE 0]
oneHotValue(value, buckets) ==
    [i \in DOMAIN buckets |-> IF buckets[i] = value THEN 1 ELSE 0]

\* v === null ? 0 : (v - s.mean) / s.std
Standardized(v, s) == IF v = Null THEN 0 ELSE [value |-> Val(v), mean |-> s.mean, std |-> s.std]
NumericPart(row, schema, scaler) ==
    [i \in DOMAIN schema.numericKeys |-> Standardized(NumericOf(row, schema.numericKeys[i]), scaler[schema.numericKeys[i]])]

buildVector(row, schema, scaler) ==
    <<1>> \o NumericPart(row, schema, scaler)
          \o oneHotValue(row._phaseNow, schema.phaseBuckets)
          \o oneHotValue(row._taxonomyDomain, schema.domainBuckets)
          \o oneHotValue(OrElse(row.leg1Venue, "unknown"), schema.leg1VenueBuckets)
          \o oneHotValue(OrElse(row.leg2Venue, "unknown"), schema.leg2VenueBuckets)
          \o oneHotValue(OrElse(row.leg1OrderIntent, "unknown"), schema.leg1IntentBuckets)
          \o oneHotValue(OrElse(row.leg2OrderIntent, "unknown"), schema.leg2IntentBuckets)

\* The rows a vector is built for: a prepared row of the dataset with any
\* of these values in its categorical fields.
VectorBaseRow == PreparedRow(KindA(10), Val(ResOf(KindA(10))), Val(TaxOf(KindA(10))))
VectorVenues == {Null, Some("kalshi"), Some("polymarket")}
VectorIntents == {Null, Some("buy"), Some("sell")}
VectorPhases == {"T_24h_6h", "T_3d_1d", "unknown"}
VectorDomains == {"finance", "other"}
VectorEdges == {JsNull, JsNum(2)}
VectorRows ==
    {[VectorBaseRow EXCEPT !.leg1Venue = v1, !.leg2Venue = v2, !.leg1OrderIntent = i1, !.leg2OrderIntent = i2, !._phaseNow = p, !._taxonomyDomain = d, !.expectedEdgeAtDecision = e] :
        v1 \in VectorVenues, v2 \in {Null, Some("polymarket")}, i1 \in VectorIntents, i2 \in {Null, Some("sell")},
        p \in VectorPhases, d \in VectorDomains, e \in VectorEdges}

\* The training slices a schema and a scaler are fitted on.
VectorTrainSlices == {UsableRows(prepareRows(t)) : t \in TrainStretches}

InitVector ==
    /\ pc = "vector"
    /\ \E row \in VectorRows, train \in VectorTrainSlices :
          vecIn = Some([row |-> row, schema |-> buildSchema(train), scaler |-> fitScaler(train, numericKeys)])
    /\ vecOut = Null
    /\ prIn = Null /\ prOut = Null
    /\ LabelIdle /\ CapIdle /\ PhaseIdle /\ EvalIdle
    /\ WalkIdle /\ FitIdle /\ EdIdle /\ ParseIdle

CallBuildVector ==
    /\ pc = "vector"
    /\ vecOut' = Some(buildVector(Val(vecIn).row, Val(vecIn).schema, Val(vecIn).scaler))
    /\ pc' = "vectorDone"
    /\ UNCHANGED <<prIn, prOut, vecIn>>
    /\ UNCHANGED <<labelVars, capVars, phaseVars, evalVars, walkVars, fitVars, edVars, parseVars>>

NextVector == CallBuildVector

SpecVector == InitVector /\ [][NextVector]_vars

\* Property definitions: the six categorical blocks of the vector, in order
BlockNames == <<"phase", "domain", "leg1Venue", "leg2Venue", "leg1Intent", "leg2Intent">>
VocabularyOf(schema, k) ==
    CASE k = 1 -> schema.phaseBuckets
      [] k = 2 -> schema.domainBuckets
      [] k = 3 -> schema.leg1VenueBuckets
      [] k = 4 -> schema.leg2VenueBuckets
      [] k = 5 -> schema.leg1IntentBuckets
      [] OTHER -> schema.leg2IntentBuckets
\* the field as the row holds it: Null when missing
FieldOf(row, k) ==
    CASE k = 1 -> Some(row._phaseNow)
      [] k = 2 -> Some(row._taxonomyDomain)
      [] k = 3 -> row.leg1Venue
      [] k = 4 -> row.leg2Venue
      [] k = 5 -> row.leg1OrderIntent
      [] OTHER -> row.leg2OrderIntent
RECURSIVE BlockStart(_, _)
BlockStart(schema, k) ==
    IF k = 1 THEN 1 + Len(schema.numericKeys)
    ELSE BlockStart(schema, k - 1) + Len(VocabularyOf(schema, k - 1))
BlockOf(x, schema, k) == SubSeq(x, BlockStart(schema, k) + 1, BlockStart(schema, k) + Len(VocabularyOf(schema, k)))
InVocabulary(value, vocabulary) == \E i \in DOMAIN vocabulary : vocabulary[i] = value
AllZero(block) == \A i \in DOMAIN block : block[i] = 0
OnlyBucket(block, vocabulary, value) == \A i \in DOMAIN block : block[i] = (IF vocabulary[i] = value THEN 1 ELSE 0)
UnknownToSchema(row, schema, k) == FieldOf(row, k) = Null \/ ~InVocabulary(Val(FieldOf(row, k)), VocabularyOf(schema, k))

\* C22 as stated: a categorical value unknown to the schema (missing on the
\* row, or not in the training vocabulary) is encoded in the "unknown"
\* bucket when the vocabulary contains "unknown", and as an all-zero block
\* otherwise.
C22_UnknownValuesGoToUnknownBucket ==
    pc = "vectorDone" =>
        \A k \in DOMAIN BlockNames :
            UnknownToSchema(Val(vecIn).row, Val(vecIn).schema, k) =>
                IF InVocabulary("unknown", VocabularyOf(Val(vecIn).schema, k))
                THEN OnlyBucket(BlockOf(Val(vecOut), Val(vecIn).schema, k), VocabularyOf(Val(vecIn).schema, k), "unknown")
                ELSE AllZero(BlockOf(Val(vecOut), Val(vecIn).schema, k))

\* C22 (amended): a venue or order intent missing on the row is encoded in
\* the "unknown" bucket when the vocabulary contains "unknown" and as an
\* all-zero block otherwise; a value the row does have but the training
\* vocabulary does not is encoded as an all-zero block whether or not the
\* vocabulary contains "unknown"; a value of the vocabulary sets its own
\* bucket and no other.
C22_MissingGoesToUnknownUnseenToZero ==
    pc = "vectorDone" =>
        /\ Len(Val(vecOut)) = BlockStart(Val(vecIn).schema, Len(BlockNames)) + Len(VocabularyOf(Val(vecIn).schema, Len(BlockNames)))
        /\ \A k \in DOMAIN BlockNames :
            LET field == FieldOf(Val(vecIn).row, k)
                vocabulary == VocabularyOf(Val(vecIn).schema, k)
                block == BlockOf(Val(vecOut), Val(vecIn).schema, k)
            IN  /\ (field = Null /\ InVocabulary("unknown", vocabulary)) => OnlyBucket(block, vocabulary, "unknown")
                /\ (field = Null /\ ~InVocabulary("unknown", vocabulary)) => AllZero(block)
                /\ (field # Null /\ ~InVocabulary(Val(field), vocabulary)) => AllZero(block)
                /\ (field # Null /\ InVocabulary(Val(field), vocabulary)) => OnlyBucket(block, vocabulary, Val(field))

\* a row without leg1Venue and with an unseen leg2 order intent, for a
\* schema whose leg1Venue and leg2 intent vocabularies both hold "unknown",
\* and without leg2Venue where that vocabulary does not hold "unknown"
C22_Witness ==
    /\ pc = "vectorDone"
    /\ Val(vecIn).row.leg1Venue = Null
    /\ InVocabulary("unknown", Val(vecIn).schema.leg1VenueBuckets)
    /\ Val(vecIn).row.leg2OrderIntent = Some("sell")
    /\ InVocabulary("unknown", Val(vecIn).schema.leg2IntentBuckets)
    /\ AllZero(BlockOf(Val(vecOut), Val(vecIn).schema, 6))
    /\ Val(vecIn).row.leg2Venue = Null
    /\ ~InVocabulary("unknown", Val(vecIn).schema.leg2VenueBuckets)

----------------------------------------------------------------------------
(* The labeling script on an input file in any line order.  The script      *)
(* reads whatever order the file has and sorts each series itself.          *)

MaxSeriesRows == 3

\* The query rows the lines are drawn from: series A at 0 minutes and past
\* seven days, variants of it in edge, capacity and expiry at 0, 15, 30 and
\* 90 minutes, and a row of series B.
SeriesDbRows ==
    { BaseDbRow(0), BaseDbRow(10110),
      [BaseDbRow(30) EXCEPT !.expected_edge_at_decision = JsNumStr(1)],
      [BaseDbRow(90) EXCEPT !.min_kernel_contracts_at_decision = JsNumStr(50)],
      [BaseDbRow(30) EXCEPT !.target_contracts_at_decision = JsNull],
      [BaseDbRow(0) EXCEPT !.leg1_expires_at = JsDate(100)],
      [BaseDbRow(0) EXCEPT !.leg1_expires_at = JsDate(1470)],
      [BaseDbRow(15) EXCEPT !.expected_edge_at_decision = JsNumStr(5)],
      [BaseDbRow(0) EXCEPT !.dedupe_key = JsStr("B")] }

\* One more line of the input file, in whatever order the file has.
ReadRowAnyOrder ==
    /\ pc = "read"
    /\ Len(rows) < MaxSeriesRows
    /\ \E r \in SeriesDbRows : rows' = Append(rows, parseFeatures(r))
    /\ UNCHANGED <<pc, grouped, gi, ri, labeledRows, written, capVars, phaseVars, evalVars,
                 walkVars, fitVars, predVars, edVars, parseVars>>

NextSeries == ReadRowAnyOrder \/ GroupRows \/ SortSeries \/ LabelRow \/ WriteLabeled

SpecSeries == Init /\ [][NextSeries]_vars

----------------------------------------------------------------------------
(* Properties of the best-so-far selections of the label scan *)

\* The later records up to a bound that have an edge, and those of them
\* that yield a capacity-adjusted uplift for the record of output n.
WithEdgeUpTo(n, bound) == {j \in LaterUpTo(n, bound) : safeNum(SeriesAt(n)[j].expectedEdgeAtDecision) # Null}
WithUpliftUpTo(n, bound) ==
    {j \in WithEdgeUpTo(n, bound) : resolveCapacity(NowAt(n)) # Null /\ resolveCapacity(SeriesAt(n)[j]) # Null}
InLateWindow(n) ==
    {j \in WithUpliftUpTo(n, CappedWindowEnd(n)) :
        /\ parseResolutionTs(NowAt(n)) # Null
        /\ Val(parseResolutionTs(NowAt(n))) - TsOf(SeriesAt(n)[j]) <= 24 * 60}
InNearWindow(n) ==
    {j \in WithUpliftUpTo(n, CappedWindowEnd(n)) :
        /\ parseResolutionTs(NowAt(n)) # Null
        /\ Val(parseResolutionTs(NowAt(n))) - TsOf(SeriesAt(n)[j]) <= 6 * 60}

\* cEdge * min(nowCapacity, cCap) - nowEdge * nowCapacity, and the fill ratio
UpliftAt(n, j) ==
    EdgeOf(SeriesAt(n)[j]) * Min2(Val(resolveCapacity(NowAt(n))), Val(resolveCapacity(SeriesAt(n)[j])))
        - EdgeOf(NowAt(n)) * Val(resolveCapacity(NowAt(n)))
RatioAt(n, j) == <<Min2(Val(resolveCapacity(NowAt(n))), Val(resolveCapacity(SeriesAt(n)[j]))), Val(resolveCapacity(NowAt(n)))>>
OffsetAt(n, j) == TsOf(SeriesAt(n)[j]) - TsOf(NowAt(n))

\* the earliest record of S, in series order, that attains the maximum
FirstBestEdge(n, S) ==
    CHOOSE j \in S : \A i \in S : /\ EdgeOf(SeriesAt(n)[i]) <= EdgeOf(SeriesAt(n)[j])
                                  /\ EdgeOf(SeriesAt(n)[i]) = EdgeOf(SeriesAt(n)[j]) => j <= i
FirstBestUplift(n, S) ==
    CHOOSE j \in S : \A i \in S : /\ UpliftAt(n, i) <= UpliftAt(n, j)
                                  /\ UpliftAt(n, i) = UpliftAt(n, j) => j <= i

HorizonTiesKeepFirst(n, k) ==
    labeledRows[n].labels[k] # Null =>
        /\ Val(labeledRows[n].labels[k]).minutesToBestEdge
             = Some(OffsetAt(n, FirstBestEdge(n, WithEdgeUpTo(n, HorizonEnd(n, k)))))
        /\ WithUpliftUpTo(n, HorizonEnd(n, k)) # {} =>
             /\ Val(labeledRows[n].labels[k]).minutesToBestCapacityAdjusted
                  = Some(OffsetAt(n, FirstBestUplift(n, WithUpliftUpTo(n, HorizonEnd(n, k)))))
             /\ Val(labeledRows[n].labels[k]).bestFillRatioAtNowSize
                  = Some(RatioAt(n, FirstBestUplift(n, WithUpliftUpTo(n, HorizonEnd(n, k)))))

ResolutionTiesKeepFirst(n) ==
    Labelled(n) =>
        /\ Val(ResLabel(n)).minutesToBestEdge7d
             = Some(OffsetAt(n, FirstBestEdge(n, WithEdgeUpTo(n, CappedWindowEnd(n)))))
        /\ WithUpliftUpTo(n, CappedWindowEnd(n)) # {} =>
             /\ Val(ResLabel(n)).minutesToBestCapacityAdjusted7d
                  = Some(OffsetAt(n, FirstBestUplift(n, WithUpliftUpTo(n, CappedWindowEnd(n)))))
             /\ Val(ResLabel(n)).bestFillRatioAtNowSize7d
                  = Some(RatioAt(n, FirstBestUplift(n, WithUpliftUpTo(n, CappedWindowEnd(n)))))
        /\ InLateWindow(n) # {} =>
             /\ Val(ResLabel(n)).bestLateWindowCapacityAdjustedUplift = Some(UpliftAt(n, FirstBestUplift(n, InLateWindow(n))))
             /\ Val(ResLabel(n)).bestLateWindowFillRatioAtNowSize = Some(RatioAt(n, FirstBestUplift(n, InLateWindow(n))))
        /\ InNearWindow(n) # {} =>
             Val(ResLabel(n)).nearResolutionCapacityAdjustedUplift = Some(UpliftAt(n, FirstBestUplift(n, InNearWindow(n))))
        /\ WithUpliftUpTo(n, PolicyEnd(n)) # {} =>
             /\ Val(ResLabel(n)).minutesToBestPolicyWindow
                  = Some(OffsetAt(n, FirstBestUplift(n, WithUpliftUpTo(n, PolicyEnd(n)))))
             /\ Val(ResLabel(n)).bestWaitFillRatioPolicyWindowAtNowSize
                  = Some(RatioAt(n, FirstBestUplift(n, WithUpliftUpTo(n, PolicyEnd(n)))))

\* C23: in every best-so-far selection of the label scan (best future edge,
\* best capacity-adjusted uplift, the late-window and policy-window bests)
\* the earliest candidate in series order among those attaining the maximum
\* is kept: the reported minutes-to-best and fill ratio are its.
C23_TiesKeepFirstMaximum ==
    \A n \in Outputs :
        /\ ResolutionTiesKeepFirst(n)
        /\ \A k \in {"15m", "1h", "3h"} : HorizonTiesKeepFirst(n, k)

\* two candidates attain the best uplift with different fill ratios and at
\* different times; the label reports the earlier one
C23_Witness ==
    \E n \in Outputs :
        /\ Labelled(n)
        /\ \E i, j \in WithUpliftUpTo(n, CappedWindowEnd(n)) :
              /\ i < j
              /\ UpliftAt(n, i) = UpliftAt(n, j)
              /\ \A m \in WithUpliftUpTo(n, CappedWindowEnd(n)) : UpliftAt(n, m) <= UpliftAt(n, i)
              /\ RatioAt(n, i) # RatioAt(n, j)
              /\ OffsetAt(n, i) # OffsetAt(n, j)
              /\ Val(ResLabel(n)).bestFillRatioAtNowSize7d = Some(RatioAt(n, i))
              /\ Val(ResLabel(n)).minutesToBestCapacityAdjusted7d = Some(OffsetAt(n, i))

----------------------------------------------------------------------------
(* Segment models: which segments get a model of their own in the           *)
(* walk-forward window (runWindow) and in train-robust-models.mjs, and      *)
(* which weights a row is predicted with.                                   *)

\* train-robust-models.mjs: const MIN_SEGMENT_ROWS = 120
MIN_SEGMENT_ROWS_ROBUST == 120

\* for (const [seg, segRows] of regGroups.entries()) { if (segRows.length < MIN_SEGMENT_ROWS) continue; ... }
RobustRegSegmentKeys(rs) ==
    {seg \in SegmentKeys(RobustRegTrainRows(rs)) : CountRuns(SegmentRows(RobustRegTrainRows(rs), seg)) >= MIN_SEGMENT_ROWS_ROBUST}

\* for (const [seg, segRows] of clsGroups.entries()) { ...; if (p === 0 || n === 0) continue; ... }
RobustClsSegmentKeys(rs) ==
    {seg \in SegmentKeys(RobustClsTrainRows(rs)) :
        /\ CountRuns(SegmentRows(RobustClsTrainRows(rs), seg)) >= MIN_SEGMENT_ROWS_ROBUST
        /\ ClassCount(SegmentRows(RobustClsTrainRows(rs), seg), 1) # 0
        /\ ClassCount(SegmentRows(RobustClsTrainRows(rs), seg), 0) # 0}

RobustRegSegmentOf(segRows, rs) ==
    [lo |-> SegmentLo(segRows),
     hi |-> SegmentHi(segRows),
     weights |-> Apply("ridgeTrain", <<RobustVectorize(Rows("segRows", segRows), rs), Apply("y", <<Rows("segRows", segRows)>>)>>),
     rows |-> CountRuns(segRows)]
RobustClsSegmentOf(segRows, rs) ==
    [weights |-> Apply("logisticTrain", <<RobustVectorize(Rows("segRows", segRows), rs), Apply("y", <<Rows("segRows", segRows)>>)>>),
     rows |-> CountRuns(segRows)]
RobustRegSegments(rs) == [seg \in RobustRegSegmentKeys(rs) |-> RobustRegSegmentOf(SegmentRows(RobustRegTrainRows(rs), seg), rs)]
RobustClsSegments(rs) == [seg \in RobustClsSegmentKeys(rs) |-> RobustClsSegmentOf(SegmentRows(RobustClsTrainRows(rs), seg), rs)]

\* const seg = clsSegments[row._segmentKey]; const w = seg ? seg.w : clsGlobalW;
LogitWeights(clsSegments, clsGlobalW, row) ==
    IF row._segmentKey \in DOMAIN clsSegments THEN clsSegments[row._segmentKey].w ELSE clsGlobalW

\* predictRegRow / predictClsLogitRow: the weights the dot product is taken with
RobustRegWeights(regSegments, regGlobalW, row) ==
    IF row._segmentKey \in DOMAIN regSegments THEN regSegments[row._segmentKey].weights ELSE regGlobalW
RobustLogitWeights(clsSegments, clsGlobalW, row) ==
    IF row._segmentKey \in DOMAIN clsSegments THEN clsSegments[row._segmentKey].weights ELSE clsGlobalW

\* What the two scripts have fitted of segment and global models.
WalkModels(train) ==
    [regSegments |-> RegSegments(train), clsSegments |-> ClsSegments(train),
     regGlobalW |-> RegGlobalW(train), clsGlobalW |-> ClsGlobalW(train)]
RobustModels(rs) ==
    [regSegments |-> RobustRegSegments(rs), clsSegments |-> RobustClsSegments(rs),
     regGlobalW |-> RobustRegGlobalW(rs), clsGlobalW |-> RobustClsGlobalW(rs)]

\* Rows of the segment other::T_1h_close that wait, and censored ones
KindBWait(ts) ==
    LabeledRow(JsDate(ts), ResLabels(Some(FALSE), JsNum(3), FALSE, Some("T_1h_close"), JsNull), TaxLabels(Null), Null, JsNum(4))
KindBCensored(ts) ==
    LabeledRow(JsDate(ts), ResLabels(Null, JsNull, TRUE, Some("T_1h_close"), JsNull), TaxLabels(Null), Null, JsNum(4))

\* The first rows of the dataset: a small segment around the two minimum
\* row counts, of one class or of both, before the rows of a large segment.
SegmentSizes == {MIN_SEGMENT_ROWS - 1, MIN_SEGMENT_ROWS, MIN_SEGMENT_ROWS_ROBUST - 1, MIN_SEGMENT_ROWS_ROBUST}
SegmentTrainStretches ==
    { << [row |-> KindB(10), n |-> k], [row |-> KindA(11), n |-> 700 - k], [row |-> KindAWin(12), n |-> 700] >> : k \in SegmentSizes }
    \cup
    { << [row |-> KindB(10), n |-> k - 30], [row |-> KindBWait(11), n |-> 30], [row |-> KindA(12), n |-> 1400 - k] >> : k \in SegmentSizes }
    \cup
    { << [row |-> KindB(10), n |-> k - 30], [row |-> KindBWait(11), n |-> 29], [row |-> KindBCensored(12), n |-> 20], [row |-> KindA(13), n |-> 1381 - k] >> : k \in SegmentSizes }
SegmentDatasets == {prepareRows(t \o v \o u) : t \in SegmentTrainStretches, v \in ValidStretches, u \in {<<[row |-> KindA(30), n |-> 250]>>}}

\* The rows predicted: of the small segment, of the large one, of a segment
\* no training row has.
PredictedRows ==
    {PreparedRow(r, Val(ResOf(r)), Val(TaxOf(r))) : r \in {KindB(40), KindA(40), KindCensored(40), KindNoTarget(40)}}

InitSegment ==
    /\ pc = "segments"
    /\ fitRows \in SegmentDatasets
    /\ fitRowsB = <<>>
    /\ fitOut = Null
    /\ prIn \in {Some(r) : r \in PredictedRows}
    /\ prOut = Null
    /\ vecIn = Null /\ vecOut = Null
    /\ LabelIdle /\ CapIdle /\ PhaseIdle /\ EvalIdle
    /\ WalkIdle /\ EdIdle /\ ParseIdle

\* runWindow on the window at the start of the dataset
FitWalkSegments ==
    /\ pc = "segments"
    /\ fitOut' = Some([walk |-> WalkModels(TrainSlice(fitRows, trainCount)), robust |-> Null])
    /\ pc' = "segmentsWalk"
    /\ UNCHANGED <<fitRows, fitRowsB, predVars>>
    /\ UNCHANGED <<labelVars, capVars, phaseVars, evalVars, walkVars, edVars, parseVars>>

\* train-robust-models.mjs on the dataset
FitRobustSegments ==
    /\ pc = "segmentsWalk"
    /\ fitOut' = Some([Val(fitOut) EXCEPT !.robust = RobustModels(fitRows)])
    /\ pc' = "segmentsFitted"
    /\ UNCHANGED <<fitRows, fitRowsB, predVars>>
    /\ UNCHANGED <<labelVars, capVars, phaseVars, evalVars, walkVars, edVars, parseVars>>

\* predictLogit(row) of the window, predictRegRow(row) and predictClsLogitRow(row)
PredictRow ==
    /\ pc = "segmentsFitted"
    /\ prOut' = Some([walkLogit |-> LogitWeights(Val(fitOut).walk.clsSegments, Val(fitOut).walk.clsGlobalW, Val(prIn)),
                      robustReg |-> RobustRegWeights(Val(fitOut).robust.regSegments, Val(fitOut).robust.regGlobalW, Val(prIn)),
                      robustLogit |-> RobustLogitWeights(Val(fitOut).robust.clsSegments, Val(fitOut).robust.clsGlobalW, Val(prIn))])
    /\ pc' = "segmentsPredicted"
    /\ UNCHANGED <<fitRows, fitRowsB, fitOut, prIn, vecIn, vecOut>>
    /\ UNCHANGED <<labelVars, capVars, phaseVars, evalVars, walkVars, edVars, parseVars>>

NextSegment == FitWalkSegments \/ FitRobustSegments \/ PredictRow

SpecSegment == InitSegment /\ [][NextSegment]_vars

\* Property definitions: the filtered training rows of the two paths, counted
\* by segment and by class
RECURSIVE RowsOfSegment(_, _)
RowsOfSegment(rs, seg) ==
    IF rs = <<>> THEN 0
    ELSE (IF rs[1].row._segmentKey = seg THEN rs[1].n ELSE 0) + RowsOfSegment(Tail(rs), seg)
RECURSIVE RowsOfClass(_, _, _)
RowsOfClass(rs, seg, c) ==
    IF rs = <<>> THEN 0
    ELSE (IF rs[1].row._segmentKey = seg /\ rs[1].row._clsTarget = Some(c) THEN rs[1].n ELSE 0) + RowsOfClass(Tail(rs), seg, c)
AllSegmentKeys == {fitRows[i].row._segmentKey : i \in DOMAIN fitRows} \cup {r._segmentKey : r \in PredictedRows}
WalkTrain == UsableRows(SliceRuns(fitRows, 0, 1400))
RobustTrain == UsableRows(SliceRuns(fitRows, 0, (CountRuns(fitRows) * 7) \div 10))
HasBothClasses(rs, seg) == RowsOfClass(rs, seg, 1) > 0 /\ RowsOfClass(rs, seg, 0) > 0

SegmentModelsByRowCount ==
    pc \in {"segmentsFitted", "segmentsPredicted"} =>
        \A seg \in AllSegmentKeys :
            /\ seg \in DOMAIN Val(fitOut).walk.regSegments <=> RowsOfSegment(WalkTrain, seg) >= 80
            /\ seg \in DOMAIN Val(fitOut).walk.clsSegments
                 <=> (RowsOfSegment(WalkTrain, seg) >= 80 /\ HasBothClasses(WalkTrain, seg))
            /\ seg \in DOMAIN Val(fitOut).robust.regSegments <=> RowsOfSegment(RobustTrain, seg) >= 120
            /\ seg \in DOMAIN Val(fitOut).robust.clsSegments
                 <=> (RowsOfSegment(RobustTrain, seg) >= 120 /\ HasBothClasses(RobustTrain, seg))

PredictedBySegmentOrGlobal ==
    pc = "segmentsPredicted" =>
        LET seg == Val(prIn)._segmentKey
            models == Val(fitOut)
        IN  /\ Val(prOut).walkLogit = (IF seg \in DOMAIN models.walk.clsSegments THEN models.walk.clsSegments[seg].w ELSE models.walk.clsGlobalW)
            /\ Val(prOut).robustReg = (IF seg \in DOMAIN models.robust.regSegments THEN models.robust.regSegments[seg].weights ELSE models.robust.regGlobalW)
            /\ Val(prOut).robustLogit = (IF seg \in DOMAIN models.robust.clsSegments THEN models.robust.clsSegments[seg].weights ELSE models.robust.clsGlobalW)
            /\ RowsOfSegment(WalkTrain, seg) < 80 => Val(prOut).walkLogit = models.walk.clsGlobalW
            /\ RowsOfSegment(RobustTrain, seg) < 120 =>
                 /\ Val(prOut).robustReg = models.robust.regGlobalW
                 /\ Val(prOut).robustLogit = models.robust.clsGlobalW
            /\ \A path \in {models.walk, models.robust} :
                 /\ \A k \in DOMAIN path.regSegments : path.regSegments[k] # path.regGlobalW
                 /\ \A k \in DOMAIN path.clsSegments : path.clsSegments[k] # path.clsGlobalW

\* C24: a segment gets its own regression model iff it has at least the
\* minimum row count among the filtered training rows (80 in the
\* walk-forward window, 120 in the single-split path) and its own
\* classification model iff it has, in addition, a positive and a negative
\* example; a row is predicted with the model of its segment key when there
\* is one and with the global model otherwise, so a row of an unseen or
\* too-small segment is predicted by the global model.
C24_SegmentModelsAndFallback == SegmentModelsByRowCount /\ PredictedBySegmentOrGlobal

\* a row of a segment with 80 filtered training rows of both classes: the
\* window predicts it with the segment's model, the single-split path, where
\* 80 rows are too few, with the global one
C24_Witness ==
    /\ pc = "segmentsPredicted"
    /\ RowsOfSegment(WalkTrain, Val(prIn)._segmentKey) = 80
    /\ Val(prIn)._segmentKey \in DOMAIN Val(fitOut).walk.clsSegments
    /\ Val(prOut).walkLogit = Val(fitOut).walk.clsSegments[Val(prIn)._segmentKey].w
    /\ Val(prOut).robustLogit = Val(fitOut).robust.clsGlobalW
    /\ Val(prOut).robustReg = Val(fitOut).robust.regGlobalW

----------------------------------------------------------------------------
(* enterEarlyBetterThanLate and the late window *)

\* The candidates of output n at most 24 hours before the resolution.
LateWindowRecords(n) ==
    {j \in LaterUpTo(n, CappedWindowEnd(n)) :
        /\ parseResolutionTs(NowAt(n)) # Null
        /\ Val(parseResolutionTs(NowAt(n))) - TsOf(SeriesAt(n)[j]) <= 24 * 60}

BestLateUplift(n) == SetMax({UpliftAt(n, j) : j \in InLateWindow(n)})

\* C25 (as stated): for every non-null resolution-anchored label,
\* enterEarlyBetterThanLate is null iff no candidate of the record fell in the
\* late window, and whenever a late-window candidate existed it is the
\* boolean (best late-window capacity-adjusted uplift <= 0).
C25_NullIffNoLateWindowCandidate ==
    \A n \in Outputs :
        Labelled(n) =>
            /\ Val(ResLabel(n)).enterEarlyBetterThanLate = Null <=> LateWindowRecords(n) = {}
            /\ LateWindowRecords(n) # {} =>
                 /\ Val(ResLabel(n)).bestLateWindowCapacityAdjustedUplift # Null
                 /\ Val(ResLabel(n)).enterEarlyBetterThanLate
                      = Some(Val(Val(ResLabel(n)).bestLateWindowCapacityAdjustedUplift) <= 0)

\* C25 (amended): for every non-null resolution-anchored label,
\* enterEarlyBetterThanLate is null iff no late-window candidate yields a
\* capacity-adjusted uplift (the candidate has an edge and a resolved capacity
\* and the record has a resolved positive capacity); otherwise it is the boolean
\* (best late-window capacity-adjusted uplift <= 0), the best being the maximum
\* uplift over those candidates.
C25_NullIffNoLateWindowUplift ==
    \A n \in Outputs :
        Labelled(n) =>
            /\ Val(ResLabel(n)).enterEarlyBetterThanLate = Null <=> InLateWindow(n) = {}
            /\ InLateWindow(n) # {} =>
                 /\ Val(ResLabel(n)).bestLateWindowCapacityAdjustedUplift = Some(BestLateUplift(n))
                 /\ Val(ResLabel(n)).enterEarlyBetterThanLate = Some(BestLateUplift(n) <= 0)

\* A record whose late-window candidate gives the boolean, and a record with
\* a candidate inside the late window whose capacity is missing, so that the
\* field is null although a candidate fell in the late window.
C25_Witness ==
    /\ \E n \in Outputs :
          /\ Labelled(n)
          /\ InLateWindow(n) # {}
          /\ Val(ResLabel(n)).enterEarlyBetterThanLate = Some(BestLateUplift(n) <= 0)
    /\ \E n \in Outputs :
          /\ Labelled(n)
          /\ LateWindowRecords(n) # {}
          /\ Val(ResLabel(n)).enterEarlyBetterThanLate = Null

----------------------------------------------------------------------------
(* Time order of the series and the forward scan *)

NonDecreasing(seq) == \A i, j \in 1..Len(seq) : i < j => TsOf(seq[i]) <= TsOf(seq[j])
Sorted == pc \in {"label", "done"}

\* The later records of seq after idx with decisionTs <= bound, in series order.
RECURSIVE LaterWithin(_, _, _)
LaterWithin(seq, j, bound) ==
    IF j > Len(seq) THEN <<>>
    ELSE (IF TsOf(seq[j]) <= bound THEN <<seq[j]>> ELSE <<>>) \o LaterWithin(seq, j + 1, bound)

\* min(t0 + horizon, t0 + 7d, resolutionTs)
ScanBound(seq, idx, horizonMs) ==
    LET cap == TsOf(seq[idx]) + Min2(horizonMs, 7 * 24 * 60)
    IN  IF parseResolutionTs(seq[idx]) = Null THEN cap ELSE Min2(cap, Val(parseResolutionTs(seq[idx])))

ScanReturnsAllWithin(seq, idx) ==
    /\ \A h \in 1..3 :
          futureRowsWithinHorizon(seq, idx, HORIZONS[h].ms, parseResolutionTs(seq[idx]))
             = LaterWithin(seq, idx + 1, ScanBound(seq, idx, HORIZONS[h].ms))
    /\ ResCandidates(seq, idx, parseResolutionTs(seq[idx]))
          = LaterWithin(seq, idx + 1, ScanBound(seq, idx, 7 * 24 * 60))

\* C26: once the series are sorted, and so before any label is computed,
\* every series is in non-decreasing decisionTs order, whatever the order of
\* the input rows, and the forward scan that stops at the first record past
\* the bound returns exactly the later records of the series with
\* decisionTs <= bound.
C26_SeriesSortedAndScanComplete ==
    /\ ~Sorted => labeledRows = <<>>
    /\ Sorted =>
          \A g \in 1..Len(grouped) :
              /\ NonDecreasing(grouped[g].seq)
              /\ \A idx \in 1..Len(grouped[g].seq) : ScanReturnsAllWithin(grouped[g].seq, idx)

\* The input rows of a series came out of time order, and the scan of a
\* record of the sorted series stops before the end of the series with a
\* record inside the bound.
C26_Witness ==
    /\ Sorted
    /\ \E i, j \in 1..Len(rows) :
          i < j /\ rows[i].dedupeKey = rows[j].dedupeKey /\ TsOf(rows[i]) > TsOf(rows[j])
    /\ \E g \in 1..Len(grouped) :
          /\ Len(grouped[g].seq) = 3
          /\ Len(ResCandidates(grouped[g].seq, 1, parseResolutionTs(grouped[g].seq[1]))) = 1

----------------------------------------------------------------------------
(* The policy's reward against the oracle's *)

\* a / b <= c / d for two means <<sum, count>>, both null on no rows
MeanAtMost(m, o) ==
    IF m = Null \/ o = Null THEN m = Null /\ o = Null
    ELSE Val(m)[1] * Val(o)[2] <= Val(o)[1] * Val(m)[2]

PolicyAtMostOracle(o) ==
    /\ o.totalRelativePnlVsAlwaysBuyNow <= o.totalOracleRelativePnlVsAlwaysBuyNow
    /\ MeanAtMost(o.meanRelativePnlVsAlwaysBuyNow, o.meanOracleRelativePnlVsAlwaysBuyNow)
    /\ o.totalOracleRelativePnlVsAlwaysBuyNow >= 0

\* the reward of row i of the rows evaluated, and the best of buying (0) and
\* waiting (the target)
RowRewardAtMostOracle(edrows, probs, t) ==
    \A i \in DOMAIN edrows :
        /\ Val(EdRewards(edrows, Decisions(probs, t))[i]) <= Max2(0, Val(edrows[i]._regTarget))
        /\ evaluate(ToNumberTargets(edrows), probs, t).rewards[i] <= Max2(0, Val(edrows[i]._regTarget))

\* C27: for rows with non-null targets, any probabilities and any threshold,
\* the reward of every row is at most max(0, target), total and mean relative
\* PnL are at most the oracle's total and mean, and the oracle's total is at
\* least 0, in evaluateDecision and in evaluate.
C27_PolicyNeverBeatsOracle ==
    /\ (pc \in {"edDone", "edBacktest"} /\ WithTarget = DOMAIN edRows) =>
          /\ PolicyAtMostOracle(Val(edOut).decision)
          /\ PolicyAtMostOracle(Val(Val(edOut).robust))
          /\ RowRewardAtMostOracle(edRows, edProbs, EdT)
    /\ pc = "edBacktest" =>
          /\ PolicyAtMostOracle(Val(Val(edOut).decisionUsed))
          /\ PolicyAtMostOracle(Val(Val(edOut).robustUsed))
          /\ RowRewardAtMostOracle(testRows(edRows), testProbs(edRows, edProbs), EdT)

\* rows that all have a target: the policy buys where waiting gains, waits
\* where waiting loses, and ends strictly below the oracle
C27_Witness ==
    /\ pc = "edBacktest"
    /\ WithTarget = DOMAIN edRows
    /\ \E i \in Buying : edRows[i]._regTarget[1] > 0
    /\ \E i \in DOMAIN edRows : i \notin Buying /\ edRows[i]._regTarget[1] < 0
    /\ Val(Val(edOut).decisionUsed).totalRelativePnlVsAlwaysBuyNow < 0
    /\ Val(Val(edOut).decisionUsed).totalOracleRelativePnlVsAlwaysBuyNow > 0

----------------------------------------------------------------------------
(* Label synthesis leaves the records alone *)

\* The input rows the grouping loop admits, in input order.
AdmittedBy(row) == GroupStep(<<>>, row) # <<>>
AdmittedRows == SelectSeq(rows, AdmittedBy)

RECURSIVE Occurrences(_, _)
Occurrences(s, x) ==
    IF s = <<>> THEN 0 ELSE (IF Head(s) = x THEN 1 ELSE 0) + Occurrences(Tail(s), x)

RECURSIVE SeriesLengths(_)
SeriesLengths(m) == IF m = <<>> THEN 0 ELSE Len(Head(m).seq) + SeriesLengths(Tail(m))

OutputRows == [n \in Outputs |-> labeledRows[n].row]

\* Every output so far is the record of its place in the series, and the
\* series hold the admitted input rows, each as often as the input has it.
RecordsKept ==
    /\ pc \in {"sort", "label", "done"} =>
          /\ SeriesLengths(grouped) = Len(AdmittedRows)
          /\ \A i \in 1..Len(rows) :
                AdmittedBy(rows[i]) =>
                    \E g \in 1..Len(grouped) :
                        /\ grouped[g].key = rows[i].dedupeKey.s
                        /\ Occurrences(grouped[g].seq, rows[i]) = Occurrences(AdmittedRows, rows[i])
    /\ Len(labeledRows) <= SeriesLengths(grouped)
    /\ \A n \in Outputs :
          /\ labeledRows[n].row = NowAt(n)
          /\ DOMAIN labeledRows[n] = {"row", "labels"}
    /\ pc = "done" =>
          /\ written = labeledRows
          /\ Len(written) = SeriesLengths(grouped)
          /\ \A i \in 1..Len(rows) :
                Occurrences(OutputRows, rows[i]) = Occurrences(AdmittedRows, rows[i])

\* The label of an output is the function of its series and index alone, for
\* each of its four keys.
LabelsAreOfOwnRecord ==
    \A n \in Outputs :
        \A k \in {"15m", "1h", "3h", "resolutionAnchored"} :
            labeledRows[n].labels[k] = buildLabelsForRow(SeriesAt(n), IdxAt(n))[k]

\* A step after the input is read changes no input row; a step of the
\* labeling loop changes no series and no output already made.
StepKeepsRecords ==
    /\ pc # "read" => rows' = rows
    /\ pc \in {"label", "done"} =>
          /\ grouped' = grouped
          /\ Len(labeledRows') >= Len(labeledRows)
          /\ \A n \in Outputs : labeledRows'[n] = labeledRows[n]

\* C28: label synthesis leaves every input record unchanged: each admitted
\* record yields exactly one output record whose fields other than labels are
\* the input record's, none is dropped or duplicated between grouping and
\* output (the output count is the sum of the series lengths, unlabelable and
\* censored records included), and computing the label of one record or
\* horizon changes the label of no other.
C28_RecordsUnchangedOneOutputEach ==
    /\ [](RecordsKept /\ LabelsAreOfOwnRecord)
    /\ [][StepKeepsRecords]_vars

\* The output is written: two records with the same timestamp, an output
\* without resolution-anchored label and a censored one are all in it.
C28_Witness ==
    /\ pc = "done"
    /\ Len(written) = 3
    /\ \E n, m \in Outputs : n # m /\ SeriesAt(n) = SeriesAt(m) /\ TsOf(NowAt(n)) = TsOf(NowAt(m))
    /\ \E n \in Outputs : ~Labelled(n)
    /\ \E n \in Outputs : Labelled(n) /\ Val(ResLabel(n)).labelCensoredPolicyWindow

----------------------------------------------------------------------------
(* What the labels of a record depend on *)

\* The record of output n followed by the later records of its series up to
\* now + 7 days, and up to the resolution timestamp when it is known.
OwnWindow(n) == <<NowAt(n)>> \o LaterWithin(SeriesAt(n), IdxAt(n) + 1, CappedWindowEnd(n))

\* C29: the labels of the record at index idx of a series are those computed
\* from that record and the later records of the same series with decisionTs at
\* most now + 7 days (and at most the resolution timestamp when known) alone:
\* earlier records of the series, records of other series and records beyond
\* that window do not enter them.
C29_LabelsDependOnOwnWindowOnly ==
    \A n \in Outputs : labeledRows[n].labels = buildLabelsForRow(OwnWindow(n), 1)

\* A labeled record with a record of its series beyond its window, and a
\* labeled record with an earlier record in its series.
C29_Witness ==
    /\ \E n \in Outputs :
          /\ Labelled(n)
          /\ Len(OwnWindow(n)) - 1 < Len(SeriesAt(n)) - IdxAt(n)
    /\ \E n \in Outputs : Labelled(n) /\ IdxAt(n) > 1

----------------------------------------------------------------------------
(* Nested windows *)

HorizonLabelAt(n, k) == labeledRows[n].labels[k]

\* a <= b for two values of which a null one is only allowed on the left
NullOrAtMost(a, b) == a # Null => (b # Null /\ Val(a) <= Val(b))

\* the label of the narrower window is null or the wider one's bests are at
\* least its bests
HorizonNested(n, k, l) ==
    HorizonLabelAt(n, k) # Null =>
        /\ HorizonLabelAt(n, l) # Null
        /\ Val(HorizonLabelAt(n, k)).bestFutureEdge <= Val(HorizonLabelAt(n, l)).bestFutureEdge
        /\ NullOrAtMost(Val(HorizonLabelAt(n, k)).capacityAdjustedUplift, Val(HorizonLabelAt(n, l)).capacityAdjustedUplift)

\* C30: for every record a non-null 15m label implies a non-null 1h label,
\* which implies a non-null 3h label, which implies a non-null
\* resolution-anchored label; bestFutureEdge grows along 15m, 1h, 3h, 7d and
\* so does capacityAdjustedUplift where it is non-null; a non-null
\* deltaNetPnlPolicyWindowAtNowSize is at most capacityAdjustedUplift7d.
C30_WindowsNestedBestsMonotone ==
    \A n \in Outputs :
        /\ HorizonNested(n, "15m", "1h")
        /\ HorizonNested(n, "1h", "3h")
        /\ HorizonLabelAt(n, "3h") # Null =>
              /\ Labelled(n)
              /\ Val(HorizonLabelAt(n, "3h")).bestFutureEdge <= Val(ResLabel(n)).bestFutureEdge7d
              /\ NullOrAtMost(Val(HorizonLabelAt(n, "3h")).capacityAdjustedUplift, Val(ResLabel(n)).capacityAdjustedUplift7d)
        /\ Labelled(n) =>
              NullOrAtMost(Val(ResLabel(n)).deltaNetPnlPolicyWindowAtNowSize, Val(ResLabel(n)).capacityAdjustedUplift7d)

\* A record with no 15m label but a 1h label whose policy-window best is
\* strictly below its 7-day best, and a record with no 3h label but a
\* resolution-anchored one.
C30_Witness ==
    /\ \E n \in Outputs :
          /\ HorizonLabelAt(n, "15m") = Null
          /\ HorizonLabelAt(n, "1h") # Null
          /\ Val(HorizonLabelAt(n, "1h")).capacityAdjustedUplift # Null
          /\ Val(ResLabel(n)).deltaNetPnlPolicyWindowAtNowSize # Null
          /\ Val(Val(ResLabel(n)).deltaNetPnlPolicyWindowAtNowSize) < Val(Val(ResLabel(n)).capacityAdjustedUplift7d)
    /\ \E n \in Outputs : HorizonLabelAt(n, "3h") = Null /\ Labelled(n)

====
